---- MODULE Spec2Model ----
(***************************************************************************)
(* hlhv/cell: the client side of the queen/cell fabric.                    *)
(*                                                                         *)
(* The module models, statement by statement, the data channel             *)
(* (client.Band: spawnBand, listen, Close and the frame I/O wrappers), the *)
(* session (client.Leash: Dial, Listen, handleFrame, NewBand, cleanBands,  *)
(* Close) and the reconnect loop (Cell.ensure, Cell.ensureOnce, Cell.Stop).*)
(* Every goroutine is a process with a program counter, and an action is   *)
(* one statement (or one run of statements touching no shared state) of    *)
(* the goroutine that takes it: shared fields are read and written         *)
(* unsynchronised in the source, so every interleaving of those statements *)
(* is a behaviour.                                                         *)
(***************************************************************************)
EXTENDS Integers, Sequences, FiniteSets, TLC

(***************************************************************************)
(* Bounds of the model.                                                    *)
(***************************************************************************)
\* data channels the model can create (band identities)
MaxBands == 2
\* frames the queen may have in flight towards one connection
MaxQueue == 2
\* channel I/O operations one request handler performs
MaxOps == 1
\* control frames the queen may have in flight
MaxCtrl == 1

\* sleeps of the reconnect loop that are counted
MaxSleeps == 11
\* calls the application handler makes in one exchange
MaxCalls == 3
\* frames the queen sends down the band during one exchange
MaxIn == 3
\* chunks of a file of the static store
MaxChunks == 2
MaxPath == 2

Bands == 1..MaxBands

(***************************************************************************)
(* Numbers of Cell.ensure (part_004:397-422), in seconds.                  *)
(***************************************************************************)
InitialRetry == 3
FastLimit == 10
ResetRetry == 2
RetryCap == 60
\* how long an attempt (Dial, Mount, Listen) may have taken
Elapsed == {FastLimit - 1, FastLimit, FastLimit + 1}

(***************************************************************************)
(* Tasks (goroutines).  MainTask runs Cell.Run/Cell.Stop, EnsureTask runs  *)
(* Cell.ensure, ListenTask(b) runs Band.listen of band b (and with it the  *)
(* request handlers of b, which are called from the read loop).            *)
(***************************************************************************)
MainTask == <<"main", 0>>
EnsureTask == <<"ensure", 0>>
ListenTask(b) == <<"listen", b>>
ExtTasks == {MainTask, EnsureTask}
Tasks == ExtTasks \cup {ListenTask(b) : b \in Bands}

\* the nil channel, and the nil band
NoChan == <<"nil", 0>>
NilBand == 0

(***************************************************************************)
(* Frame kinds (protocol.FrameKind), as far as this package tells them     *)
(* apart.  KindIAm is the zero value of the type.                          *)
(***************************************************************************)
KindIAm == "IAm"
KindAccept == "Accept"
KindNeedBand == "NeedBand"
KindHTTPReqHead == "HTTPReqHead"
KindHTTPReqBody == "HTTPReqBody"
KindHTTPReqEnd == "HTTPReqEnd"
\* band.go:187, 198, 209, 217: what the cell sends up a band
KindHTTPResHead == "HTTPResHead"
KindHTTPResBody == "HTTPResBody"
KindHTTPResEnd == "HTTPResEnd"
KindHTTPResWant == "HTTPResWant"
\* what the queen sends down a band
BandInKinds == {KindHTTPReqHead, KindHTTPReqBody, KindHTTPReqEnd}

\* results of a frame read
ResNone == [st |-> "none", kind |-> KindIAm]
ResOk(k) == [st |-> "ok", kind |-> k]
ResEOF == [st |-> "eof", kind |-> KindIAm]
ResErr == [st |-> "err", kind |-> KindIAm]

VARIABLES
    \* ---- Band (src/client/band.go:15-24), one entry per band
    conn,        \* band.conn: "none" | "open" | "closed" (closed locally)
    peer,        \* the queen's end of band.conn: "up" | "eof" | "reset"
    inq,         \* frames sent by the queen and not yet read
    listening,   \* band.listening
    isGarbage,   \* band.isGarbage
    stopNotify,  \* band.stopNotify: NoChan or the task whose Close made it
    \* ---- the read task of a band (Band.listen) and the handler it calls
    lpc,         \* program counter of Band.listen
    lres,        \* kind, data, err of the last ReadParseFrame in listen
    lchan,       \* the channel operand of the send at band.go:110
    hops,        \* channel I/O operations the running handler has made
    hop,         \* the last channel I/O operation: [op, err]
    \* ---- Band.Close, one activation per task
    cpc,         \* program counter of Band.Close in the task
    cband,       \* the receiver of that Close
    cchan,       \* the channel operand of the receive at band.go:145
    csaw,        \* the value of band.listening read at band.go:138
    \* ---- Leash (part_001:22-36)
    lconn,       \* leash.conn: "nil" | "open" | "closed" (closed locally)
    lpeer,       \* the queen's end of leash.conn: "up" | "eof" | "reset"
    ctrlq,       \* control frames sent by the queen and not yet read
    bands,       \* leash.bands: the registry (NilBand is the nil key)
    rlock,       \* the tasks holding leash.bandsMutex for reading
    responding,  \* go leash.respond() was issued by the last Dial
    \* ---- Leash.Close, one activation per task
    lcpc,        \* program counter of Leash.Close in the task
    todo,        \* the registry entries its range loop has yet to visit
    \* ---- Cell (part_004:223-243) and its two tasks
    shouldStop,  \* cell.shouldStop
    mpc,         \* program counter of the main task (Cell.Run, Cell.Stop)
    epc,         \* program counter of the reconnect task (Cell.ensure)
    retryTime,   \* retryTime of Cell.ensure
    elapsed,     \* time.Since(lastEnsureTime) of the last attempt, seconds
    err,         \* the error the reconnect task is returning
    lfr,         \* kind, err of the frame the reconnect task last read
    sband,       \* the band spawnBand is building or has returned
    allFast,     \* every attempt so far ended in under ten seconds
    nsleeps,     \* while allFast: the sleeps so far (counted to MaxSleeps)
    fault,       \* the statement that panicked, "none" while running
    \* ---- the identity of the session and of its bands
    lident,      \* leash.uuid, leash.key (part_001:24-25)
    laddr,       \* leash.conn.RemoteAddr(), NoAddr while conn is nil
    qident,      \* uuid, key of the accept frame of the Dial that last
                 \* returned nil; NoIdent from the start of the next Dial
    biam,        \* per band: the address dialled, the identity frame sent
    \* ---- one exchange: a request head dispatched by handleBandFrame
    hpc,          \* where the read task is in the handling of the request
    xconn,        \* the band's connection: "up" | "reset" | "closed"
    xin,          \* frames [kind, data, n] sent by the queen and not yet read
    xout,         \* frames handed to band.writer, in order (see Out)
    nsent,        \* frames the queen has sent during the exchange
    askedForBody, \* request.askedForBody (http-request.go:14)
    maxBodySize,  \* request.maxBodySize (http-request.go:15)
    lastSet,      \* the last SetMaxBodySize before the first body read
    calls,        \* calls the application handler has made
    nreads,       \* of which ReadBody and ReadBodyFull
    chunks,       \* chunks of the file LazyFile.Send has yet to write
    body,         \* body of the running ReadHTTPBodyFull (band.go:249)
    got,          \* the frames the running ReadHTTPBodyFull has read
    ret,          \* what the last body read returned, and the frame it read
    wrote,        \* the arguments of the handler's WriteHead and WriteBody calls
    tried,        \* handled, err of store.TryHandle (part_004:328)
    invoked,      \* how many times cell.OnHTTP was called (part_004:347)
    reads,        \* the frames read off the band so far: [n, by]
    \* ---- the store of static files (part_005)
    lazyFiles,    \* store.lazyFiles: web path -> [FilePath, AutoReload]
    scall         \* the last call on the store and what it returned

bandVars == <<conn, peer, inq, listening, isGarbage, stopNotify>>
listenVars == <<lpc, lres, lchan, hops, hop>>
closeVars == <<cpc, cband, cchan, csaw>>
leashVars == <<lconn, lpeer, ctrlq, bands, rlock, responding>>
lcloseVars == <<lcpc, todo>>
cellVars == <<shouldStop, mpc, epc, retryTime, elapsed, err, lfr, sband,
              nsleeps, allFast>>
sessVars == <<leashVars, lcloseVars, cellVars, fault>>
exchVars == <<hpc, xconn, xin, xout, nsent, askedForBody, maxBodySize,
              lastSet, calls, nreads, chunks, body, got, ret, wrote,
              tried, invoked, reads>>
identVars == <<lident, laddr, qident, biam>>
storeVars == <<lazyFiles, scall>>
progVars == <<bandVars, listenVars, closeVars, sessVars, identVars,
              storeVars>>
vars == <<progVars, exchVars>>

\* the process has not panicked; the model follows it up to a panic
Running == fault = "none"

(***************************************************************************)
(* The frame transport (fsock over tls.Conn), at its interface.            *)
(* A read on a locally closed connection fails; otherwise it delivers the  *)
(* oldest frame in flight; otherwise it reports what happened to the       *)
(* peer (clean end-of-stream or a broken connection); otherwise it blocks. *)
(* A write fails once the connection is closed or the peer is gone.        *)
(***************************************************************************)
ReadResults(c, p, q) ==
    IF c = "closed" THEN {ResErr}
    ELSE IF q # <<>> THEN {ResOk(Head(q))}
    ELSE IF p = "eof" THEN {ResEOF}
    ELSE IF p = "reset" THEN {ResErr}
    ELSE {}

WriteFails(c, p) == c # "open" \/ p # "up"

NoOp == [op |-> "none", err |-> FALSE]

(***************************************************************************)
(* Band.Close (band.go:135-147), run by task t on band cband[t].           *)
(* A task that is not the read task of a band keeps "returned" as its      *)
(* final position; a handler (running on the read task) goes on.           *)
(***************************************************************************)
CloseReturn(t) == IF t \in ExtTasks THEN "returned" ELSE "idle"

\* a Close without the early return for a band that is not listening
Close_CheckAlways(t) ==
    /\ Running
    /\ cpc[t] = "check"
    /\ csaw' = [csaw EXCEPT ![t] = listening[cband[t]]]
    /\ cpc' = [cpc EXCEPT ![t] = "install"]
    /\ UNCHANGED <<bandVars, listenVars, cband, cchan>>
    /\ UNCHANGED sessVars
    /\ UNCHANGED <<exchVars, storeVars>>
    /\ UNCHANGED identVars

\* band.go:138-140: if !band.listening { return }
Close_Check(t) ==
    /\ Running
    /\ cpc[t] = "check"
    /\ csaw' = [csaw EXCEPT ![t] = listening[cband[t]]]
    /\ cpc' = [cpc EXCEPT ![t] =
                 IF listening[cband[t]] THEN "install" ELSE CloseReturn(t)]
    /\ UNCHANGED <<bandVars, listenVars, cband, cchan>>
    /\ UNCHANGED sessVars
    /\ UNCHANGED <<exchVars, storeVars>>
    /\ UNCHANGED identVars

\* band.go:143: band.stopNotify = make(chan int)
Close_Install(t) ==
    /\ Running
    /\ cpc[t] = "install"
    /\ stopNotify' = [stopNotify EXCEPT ![cband[t]] = t]
    /\ cpc' = [cpc EXCEPT ![t] = "connclose"]
    /\ UNCHANGED <<conn, peer, inq, listening, isGarbage, listenVars,
                   cband, cchan, csaw>>
    /\ UNCHANGED sessVars
    /\ UNCHANGED <<exchVars, storeVars>>
    /\ UNCHANGED identVars

\* band.go:144: band.conn.Close()
Close_ConnClose(t) ==
    /\ Running
    /\ cpc[t] = "connclose"
    /\ conn' = [conn EXCEPT ![cband[t]] = "closed"]
    /\ cpc' = [cpc EXCEPT ![t] = "evalrecv"]
    /\ UNCHANGED <<peer, inq, listening, isGarbage, stopNotify, listenVars,
                   cband, cchan, csaw>>
    /\ UNCHANGED sessVars
    /\ UNCHANGED <<exchVars, storeVars>>
    /\ UNCHANGED identVars

\* band.go:145: the operand of <-band.stopNotify is read from the field
Close_EvalRecv(t) ==
    /\ Running
    /\ cpc[t] = "evalrecv"
    /\ cchan' = [cchan EXCEPT ![t] = stopNotify[cband[t]]]
    /\ cpc' = [cpc EXCEPT ![t] = "recv"]
    /\ UNCHANGED <<bandVars, listenVars, cband, csaw>>
    /\ UNCHANGED sessVars
    /\ UNCHANGED <<exchVars, storeVars>>
    /\ UNCHANGED identVars

\* a Close that does not wait for the read loop's signal
Close_RecvNoWait(t, b) ==
    /\ Running
    /\ cpc[t] = "recv"
    /\ cband[t] = b
    /\ cpc' = [cpc EXCEPT ![t] = CloseReturn(t)]
    /\ UNCHANGED <<bandVars, listenVars, cband, cchan, csaw>>
    /\ UNCHANGED sessVars
    /\ UNCHANGED <<exchVars, storeVars>>
    /\ UNCHANGED identVars

\* band.go:145 with band.go:110-111: the channel is unbuffered, so the
\* receive in Close and the send in listen (of band b) are one step
Close_Recv(t, b) ==
    /\ Running
    /\ cpc[t] = "recv"
    /\ cband[t] = b
    /\ lpc[b] = "send"
    /\ lchan[b] = cchan[t]
    /\ cpc' = [cpc EXCEPT ![t] = CloseReturn(t)]
    /\ lpc' = [lpc EXCEPT ![b] = "exit1"]
    /\ lres' = [lres EXCEPT ![b] = ResNone]
    /\ UNCHANGED <<bandVars, lchan, hops, hop, cband, cchan, csaw>>
    /\ UNCHANGED sessVars
    /\ UNCHANGED <<exchVars, storeVars>>
    /\ UNCHANGED identVars

(***************************************************************************)
(* Band.listen (band.go:89-130), the read task of band b.                  *)
(***************************************************************************)
\* band.go:93: band.listening = true
listen_Start(b) ==
    /\ Running
    /\ lpc[b] = "spawned"
    /\ listening' = [listening EXCEPT ![b] = TRUE]
    /\ lpc' = [lpc EXCEPT ![b] = "read"]
    /\ UNCHANGED <<conn, peer, inq, isGarbage, stopNotify, lres, lchan,
                   hops, hop, closeVars>>
    /\ UNCHANGED sessVars
    /\ UNCHANGED <<exchVars, storeVars>>
    /\ UNCHANGED identVars

\* band.go:103: kind, data, err := protocol.ReadParseFrame(band.reader)
listen_Read(b) ==
    /\ Running
    /\ lpc[b] = "read"
    /\ \E r \in ReadResults(conn[b], peer[b], inq[b]) :
         /\ lres' = [lres EXCEPT ![b] = r]
         /\ inq' = [inq EXCEPT ![b] = IF r.st = "ok" THEN Tail(@) ELSE @]
    /\ lpc' = [lpc EXCEPT ![b] = "check"]
    /\ hop' = [hop EXCEPT ![b] = NoOp]
    /\ UNCHANGED <<conn, peer, listening, isGarbage, stopNotify, lchan,
                   hops, closeVars>>
    /\ UNCHANGED sessVars
    /\ UNCHANGED <<exchVars, storeVars>>
    /\ UNCHANGED identVars

\* band.go:105: if band.stopNotify != nil
listen_CheckStop(b) ==
    /\ Running
    /\ lpc[b] = "check"
    /\ lpc' = [lpc EXCEPT ![b] =
                 IF stopNotify[b] # NoChan THEN "evalchan" ELSE "dispatch"]
    /\ UNCHANGED <<bandVars, lres, lchan, hops, hop, closeVars>>
    /\ UNCHANGED sessVars
    /\ UNCHANGED <<exchVars, storeVars>>
    /\ UNCHANGED identVars

\* band.go:110: the operand of band.stopNotify <- 0 is read from the field
listen_EvalChan(b) ==
    /\ Running
    /\ lpc[b] = "evalchan"
    /\ lchan' = [lchan EXCEPT ![b] = stopNotify[b]]
    /\ lpc' = [lpc EXCEPT ![b] = "send"]
    /\ UNCHANGED <<bandVars, lres, hops, hop, closeVars>>
    /\ UNCHANGED sessVars
    /\ UNCHANGED <<exchVars, storeVars>>
    /\ UNCHANGED identVars

\* band.go:114-128: break on io.EOF, break on any other error, else call
\* the callback (spawnBand is only ever given leash.handleBandFrame)
listen_Dispatch(b) ==
    /\ Running
    /\ lpc[b] = "dispatch"
    /\ lpc' = [lpc EXCEPT ![b] =
                 IF lres[b].st = "ok" THEN "callback" ELSE "exit1"]
    /\ lres' = [lres EXCEPT ![b] = IF @.st = "ok" THEN @ ELSE ResNone]
    /\ UNCHANGED <<bandVars, lchan, hops, hop, closeVars>>
    /\ UNCHANGED sessVars
    /\ UNCHANGED <<exchVars, storeVars>>
    /\ UNCHANGED identVars

\* a deferred function that leaves band.listening as it is
listen_Exit1KeepsListening(b) ==
    /\ Running
    /\ lpc[b] = "exit1"
    /\ lpc' = [lpc EXCEPT ![b] = "exit2"]
    /\ UNCHANGED <<bandVars, lres, lchan, hops, hop, closeVars>>
    /\ UNCHANGED sessVars
    /\ UNCHANGED <<exchVars, storeVars>>
    /\ UNCHANGED identVars

\* band.go:94-95: the deferred function, band.listening = false
listen_Exit1(b) ==
    /\ Running
    /\ lpc[b] = "exit1"
    /\ listening' = [listening EXCEPT ![b] = FALSE]
    /\ lpc' = [lpc EXCEPT ![b] = "exit2"]
    /\ UNCHANGED <<conn, peer, inq, isGarbage, stopNotify, lres, lchan,
                   hops, hop, closeVars>>
    /\ UNCHANGED sessVars
    /\ UNCHANGED <<exchVars, storeVars>>
    /\ UNCHANGED identVars

\* band.go:96: the deferred function, band.isGarbage = true
listen_Exit2(b) ==
    /\ Running
    /\ lpc[b] = "exit2"
    /\ isGarbage' = [isGarbage EXCEPT ![b] = TRUE]
    /\ lpc' = [lpc EXCEPT ![b] = "done"]
    /\ UNCHANGED <<conn, peer, inq, listening, stopNotify, lres, lchan,
                   hops, hop, closeVars>>
    /\ UNCHANGED sessVars
    /\ UNCHANGED <<exchVars, storeVars>>
    /\ UNCHANGED identVars

(***************************************************************************)
(* The callback, Leash.handleBandFrame (part_001:257-274), and the channel *)
(* I/O a request handler does through the band.  All of it runs on the     *)
(* read task of the band, between two reads of Band.listen.                *)
(***************************************************************************)
InHandler(b) ==
    /\ lpc[b] = "callback"
    /\ lres[b].kind = KindHTTPReqHead
    /\ cpc[ListenTask(b)] = "idle"

\* part_001:262-263: a frame of any other kind is dropped
handleBandFrame_Ignore(b) ==
    /\ Running
    /\ lpc[b] = "callback"
    /\ lres[b].kind # KindHTTPReqHead
    /\ lpc' = [lpc EXCEPT ![b] = "read"]
    /\ lres' = [lres EXCEPT ![b] = ResNone]
    /\ UNCHANGED <<bandVars, lchan, hops, hop, closeVars>>
    /\ UNCHANGED sessVars
    /\ UNCHANGED <<exchVars, storeVars>>
    /\ UNCHANGED identVars

\* a write of one frame by the handler; closes says whether the method
\* calls band.Close() when the write fails
BandWrite(b, op, closes) ==
    /\ Running
    /\ InHandler(b)
    /\ hops[b] < MaxOps
    /\ hops' = [hops EXCEPT ![b] = @ + 1]
    /\ hop' = [hop EXCEPT ![b] = [op |-> op, err |-> WriteFails(conn[b], peer[b])]]
    /\ cpc' = [cpc EXCEPT ![ListenTask(b)] =
                 IF closes /\ WriteFails(conn[b], peer[b]) THEN "check" ELSE @]
    /\ cband' = [cband EXCEPT ![ListenTask(b)] = b]
    /\ UNCHANGED <<bandVars, lpc, lres, lchan, cchan, csaw>>
    /\ UNCHANGED sessVars
    /\ UNCHANGED <<exchVars, storeVars>>
    /\ UNCHANGED identVars

\* a read of one frame by the handler: any err, io.EOF included, closes
BandRead(b, op) ==
    /\ Running
    /\ InHandler(b)
    /\ hops[b] < MaxOps
    /\ \E r \in ReadResults(conn[b], peer[b], inq[b]) :
         /\ inq' = [inq EXCEPT ![b] = IF r.st = "ok" THEN Tail(@) ELSE @]
         /\ hop' = [hop EXCEPT ![b] = [op |-> op, err |-> r.st # "ok"]]
         /\ cpc' = [cpc EXCEPT ![ListenTask(b)] =
                      IF r.st # "ok" THEN "check" ELSE @]
    /\ hops' = [hops EXCEPT ![b] = @ + 1]
    /\ cband' = [cband EXCEPT ![ListenTask(b)] = b]
    /\ UNCHANGED <<conn, peer, listening, isGarbage, stopNotify,
                   lpc, lres, lchan, cchan, csaw>>
    /\ UNCHANGED sessVars
    /\ UNCHANGED <<exchVars, storeVars>>
    /\ UNCHANGED identVars

\* band.go:152-162
ReadParseFrame(b) == BandRead(b, "ReadParseFrame")
\* band.go:166-172
WriteMarshalFrame(b) == BandWrite(b, "WriteMarshalFrame", TRUE)
\* band.go:177-191: return band.WriteMarshalFrame(...)
WriteHTTPHead(b) == BandWrite(b, "WriteHTTPHead", TRUE)
\* band.go:195-202: return band.writer.WriteFrame(...)
WriteHTTPBody(b) == BandWrite(b, "WriteHTTPBody", FALSE)
\* band.go:216-220: return band.WriteMarshalFrame(...)
AskForHTTPBody(b) == BandWrite(b, "AskForHTTPBody", TRUE)
\* band.go:226-244: kind, data, err := band.ReadParseFrame()
ReadHTTPBody(b) == BandRead(b, "ReadHTTPBody")

\* part_001:270-271 with band.go:207-211: the handler has returned, and
\* band.writeHTTPEnd() writes the end frame: band.writer.WriteFrame(...)
writeHTTPEnd(b) ==
    /\ Running
    /\ InHandler(b)
    /\ hop' = [hop EXCEPT ![b] =
                 [op |-> "writeHTTPEnd", err |-> WriteFails(conn[b], peer[b])]]
    /\ lpc' = [lpc EXCEPT ![b] = "read"]
    /\ lres' = [lres EXCEPT ![b] = ResNone]
    /\ hops' = [hops EXCEPT ![b] = 0]
    /\ UNCHANGED <<bandVars, lchan, closeVars>>
    /\ UNCHANGED sessVars
    /\ UNCHANGED <<exchVars, storeVars>>
    /\ UNCHANGED identVars

(***************************************************************************)
(* The queen's end of a band's connection.                                 *)
(***************************************************************************)
Queen_SendBand(b, k) ==
    /\ Running
    /\ lpc[b] # "none"
    /\ peer[b] = "up"
    /\ Len(inq[b]) < MaxQueue
    /\ inq' = [inq EXCEPT ![b] = Append(@, k)]
    /\ UNCHANGED <<conn, peer, listening, isGarbage, stopNotify,
                   listenVars, closeVars>>
    /\ UNCHANGED sessVars
    /\ UNCHANGED <<exchVars, storeVars>>
    /\ UNCHANGED identVars

\* the queen closes the connection (how = "eof") or it breaks ("reset")
Queen_DropBand(b, how) ==
    /\ Running
    /\ conn[b] # "none"
    /\ peer[b] = "up"
    /\ peer' = [peer EXCEPT ![b] = how]
    /\ UNCHANGED <<conn, inq, listening, isGarbage, stopNotify,
                   listenVars, closeVars>>
    /\ UNCHANGED sessVars
    /\ UNCHANGED <<exchVars, storeVars>>
    /\ UNCHANGED identVars

(***************************************************************************)
(* Identities.  The accept frame of a Dial carries the uuid and the key of *)
(* the session (part_001:147-148); a band presents them in its identity    *)
(* frame (band.go:49-53) on a connection to the address of the control     *)
(* connection (part_001:199).                                              *)
(***************************************************************************)
\* cell.Key, the key the cell logs in with (part_004:425, part_001:125)
LoginKey == 9
\* the zero values of leash.uuid and leash.key
NoIdent == [uuid |-> 0, key |-> 0]
\* the uuid and key an accept frame may carry
Idents == {[uuid |-> 1, key |-> 2], [uuid |-> 3, key |-> 4]}
\* no connection, and the addresses a connection to the queen may have
NoAddr == 0
Addrs == {1, 2}
\* one queen: one address, and the same uuid and key at every Dial
FirstAddr == {1}
FirstIdent == {[uuid |-> 1, key |-> 2]}
\* nothing dialled and no identity frame sent
NoIAm == [addr |-> NoAddr, connKind |-> "none", uuid |-> 0, key |-> 0]

(***************************************************************************)
(* Errors, as far as the callers tell them apart.                          *)
(***************************************************************************)
NoErr == [what |-> "nil", kind |-> KindIAm]
Err(w) == [what |-> w, kind |-> KindIAm]
\* errors.New(fmt.Sprint("server sent strange response:", kind))
StrangeErr(k) == [what |-> "strange response", kind |-> k]

\* what a handshake read can return: a failed read once the connection is
\* closed or the queen is gone, else the queen's reply (an accept frame
\* whose payload parses, one whose payload does not, or another frame)
ReplyErr == [st |-> "err", kind |-> KindIAm, good |-> FALSE]
Reply(k, g) == [st |-> "ok", kind |-> k, good |-> g]
HandshakeReplies(c, p) ==
    IF WriteFails(c, p) THEN {ReplyErr}
    ELSE {Reply(KindAccept, TRUE), Reply(KindAccept, FALSE),
          Reply(KindNeedBand, TRUE), Reply(KindHTTPReqHead, TRUE)}

(***************************************************************************)
(* Leash.Close (part_001:160-168), run by task t: by the main task from    *)
(* Cell.Stop, by the reconnect task from Leash.Dial.                       *)
(***************************************************************************)
\* part_001:161: leash.conn.Close(), on a nil interface before any dial
LeashClose_Conn(t) ==
    /\ Running
    /\ lcpc[t] = "connclose"
    /\ IF lconn = "nil"
       THEN /\ fault' = "Leash.Close: leash.conn.Close() on nil"
            /\ UNCHANGED <<lconn, lcpc>>
       ELSE /\ lconn' = "closed"
            /\ lcpc' = [lcpc EXCEPT ![t] = "rlock"]
            /\ UNCHANGED fault
    /\ UNCHANGED <<bandVars, listenVars, closeVars, lpeer, ctrlq, bands,
                   rlock, responding, todo, cellVars>>
    /\ UNCHANGED <<exchVars, storeVars>>
    /\ UNCHANGED identVars

\* part_001:163-165: RLock, and the range loop starts over the registry
\* (writers hold the mutex only within one step, so it is free here)
LeashClose_RLock(t) ==
    /\ Running
    /\ lcpc[t] = "rlock"
    /\ rlock' = rlock \cup {t}
    /\ todo' = [todo EXCEPT ![t] = bands]
    /\ lcpc' = [lcpc EXCEPT ![t] = "range"]
    /\ UNCHANGED <<bandVars, listenVars, closeVars, lconn, lpeer, ctrlq,
                   bands, responding, cellVars, fault>>
    /\ UNCHANGED <<exchVars, storeVars>>
    /\ UNCHANGED identVars

\* part_001:165-166: the next band of the range, in any order;
\* band.Close() on the nil key reads band.listening through nil
LeashClose_Range(t) ==
    /\ Running
    /\ lcpc[t] = "range"
    /\ \E b \in todo[t] :
         /\ todo' = [todo EXCEPT ![t] = @ \ {b}]
         /\ IF b = NilBand
            THEN /\ fault' = "Leash.Close: band.Close() on nil"
                 /\ UNCHANGED <<cpc, cband, lcpc>>
            ELSE /\ cpc' = [cpc EXCEPT ![t] = "check"]
                 /\ cband' = [cband EXCEPT ![t] = b]
                 /\ lcpc' = [lcpc EXCEPT ![t] = "inclose"]
                 /\ UNCHANGED fault
    /\ UNCHANGED <<bandVars, listenVars, cchan, csaw, leashVars, cellVars>>
    /\ UNCHANGED <<exchVars, storeVars>>
    /\ UNCHANGED identVars

\* part_001:166: band.Close() has returned
LeashClose_BandClosed(t) ==
    /\ Running
    /\ lcpc[t] = "inclose"
    /\ cpc[t] = "returned"
    /\ cpc' = [cpc EXCEPT ![t] = "idle"]
    /\ cchan' = [cchan EXCEPT ![t] = NoChan]
    /\ csaw' = [csaw EXCEPT ![t] = FALSE]
    /\ lcpc' = [lcpc EXCEPT ![t] = "range"]
    /\ UNCHANGED <<bandVars, listenVars, cband, leashVars,
                   todo, cellVars, fault>>
    /\ UNCHANGED <<exchVars, storeVars>>
    /\ UNCHANGED identVars

\* part_001:164,168: the range is over, RUnlock, return to the caller
\* (part_004:285 in Cell.Stop, part_001:77 in Leash.Dial)
LeashClose_Return(t) ==
    /\ Running
    /\ lcpc[t] = "range"
    /\ todo[t] = {}
    /\ rlock' = rlock \ {t}
    /\ lcpc' = [lcpc EXCEPT ![t] = "none"]
    /\ mpc' = IF t = MainTask THEN "stopped" ELSE mpc
    /\ epc' = IF t = EnsureTask THEN "dial_tls" ELSE epc
    /\ UNCHANGED <<bandVars, listenVars, closeVars, lconn, lpeer, ctrlq,
                   bands, responding, todo, shouldStop, retryTime, elapsed,
                   err, lfr, sband, nsleeps, allFast, fault>>
    /\ UNCHANGED <<exchVars, storeVars>>
    /\ UNCHANGED identVars

(***************************************************************************)
(* Cell.Stop (part_004:282-285), called by Cell.Run on SIGINT/SIGTERM.     *)
(***************************************************************************)
\* part_004:283-284: cell.shouldStop = true; cell.leash.Close()
Stop ==
    /\ Running
    /\ mpc = "run"
    /\ shouldStop' = TRUE
    /\ mpc' = "stopping"
    /\ lcpc' = [lcpc EXCEPT ![MainTask] = "connclose"]
    /\ UNCHANGED <<bandVars, listenVars, closeVars, leashVars, todo, epc,
                   retryTime, elapsed, err, lfr, sband, nsleeps, allFast,
                   fault>>
    /\ UNCHANGED <<exchVars, storeVars>>
    /\ UNCHANGED identVars

(***************************************************************************)
(* Leash.Dial (part_001:68-154), called by Cell.ensureOnce.                *)
(***************************************************************************)
\* part_001:75-78: if leash.conn != nil { leash.Close() }
Dial_Begin ==
    /\ Running
    /\ epc = "dial"
    /\ responding' = FALSE
    /\ IF lconn # "nil"
       THEN /\ lcpc' = [lcpc EXCEPT ![EnsureTask] = "connclose"]
            /\ epc' = "dial_close"
       ELSE /\ epc' = "dial_tls"
            /\ UNCHANGED lcpc
    /\ UNCHANGED <<bandVars, listenVars, closeVars, lconn, lpeer, ctrlq,
                   bands, rlock, todo, shouldStop, mpc, retryTime, elapsed,
                   err, lfr, sband, nsleeps, allFast, fault>>
    /\ UNCHANGED <<exchVars, storeVars>>
    /\ qident' = NoIdent
    /\ UNCHANGED <<lident, laddr, biam>>

\* part_001:82-119: the root certificate is read and parsed (it may fail,
\* out = "cert"), tls.Dial (it may fail, out = "dial"); on success the
\* connection replaces leash.conn
Dial_TLS(out, a) ==
    /\ Running
    /\ epc = "dial_tls"
    /\ IF out = "ok"
       THEN /\ lconn' = "open"
            /\ laddr' = a
            /\ lpeer' = "up"
            /\ ctrlq' = <<>>
            /\ epc' = "dial_write"
            /\ UNCHANGED err
       ELSE /\ err' = Err(out)
            /\ epc' = "attempt_done"
            /\ UNCHANGED <<lconn, lpeer, ctrlq, laddr>>
    /\ UNCHANGED <<bandVars, listenVars, closeVars, bands, rlock,
                   responding, lcloseVars, shouldStop, mpc, retryTime,
                   elapsed, lfr, sband, nsleeps, allFast, fault>>
    /\ UNCHANGED <<exchVars, storeVars>>
    /\ UNCHANGED <<lident, qident, biam>>

\* part_001:123-129: the identity frame is written
Dial_WriteIAm ==
    /\ Running
    /\ epc = "dial_write"
    /\ IF WriteFails(lconn, lpeer)
       THEN /\ err' = Err("write")
            /\ epc' = "attempt_done"
       ELSE /\ epc' = "dial_read"
            /\ UNCHANGED err
    /\ UNCHANGED <<bandVars, listenVars, closeVars, leashVars, lcloseVars,
                   shouldStop, mpc, retryTime, elapsed, lfr, sband, nsleeps,
                   allFast, fault>>
    /\ UNCHANGED <<exchVars, storeVars>>
    /\ UNCHANGED identVars

\* a Dial that leaves the connection open on a reply that is not an accept
Dial_ReadReplyNoClose(i) ==
    /\ Running
    /\ epc = "dial_read"
    /\ \E r \in HandshakeReplies(lconn, lpeer) :
         /\ lfr' = [st |-> r.st, kind |-> r.kind]
         /\ err' = IF r.st # "ok" THEN Err("read")
                   ELSE IF r.kind # KindAccept THEN StrangeErr(r.kind)
                   ELSE IF ~r.good THEN Err("json")
                   ELSE NoErr
         /\ responding' = (r.st = "ok" /\ r.kind = KindAccept /\ r.good)
         /\ lident' = IF r.st = "ok" /\ r.kind = KindAccept /\ r.good
                      THEN i ELSE lident
         /\ qident' = IF r.st = "ok" /\ r.kind = KindAccept /\ r.good
                      THEN i ELSE qident
         /\ epc' = IF r.st = "ok" /\ r.kind = KindAccept /\ r.good
                   THEN "mount" ELSE "attempt_done"
    /\ UNCHANGED <<bandVars, listenVars, closeVars, lconn, lpeer, ctrlq,
                   bands, rlock, lcloseVars, shouldStop, mpc, retryTime,
                   elapsed, sband, nsleeps, allFast, fault>>
    /\ UNCHANGED <<exchVars, storeVars>>
    /\ UNCHANGED <<laddr, biam>>

\* an ensureOnce that goes on to Mount whatever Dial returned
Dial_ReadReplyMountAnyway(i) ==
    /\ Running
    /\ epc = "dial_read"
    /\ \E r \in HandshakeReplies(lconn, lpeer) :
         /\ lfr' = [st |-> r.st, kind |-> r.kind]
         /\ err' = IF r.st # "ok" THEN Err("read")
                   ELSE IF r.kind # KindAccept THEN StrangeErr(r.kind)
                   ELSE IF ~r.good THEN Err("json")
                   ELSE NoErr
         /\ lconn' = IF r.st = "ok" /\ r.kind # KindAccept
                     THEN "closed" ELSE lconn
         /\ responding' = (r.st = "ok" /\ r.kind = KindAccept /\ r.good)
         /\ lident' = IF r.st = "ok" /\ r.kind = KindAccept /\ r.good
                      THEN i ELSE lident
         /\ qident' = IF r.st = "ok" /\ r.kind = KindAccept /\ r.good
                      THEN i ELSE qident
         /\ epc' = "mount"
    /\ UNCHANGED <<bandVars, listenVars, closeVars, lpeer, ctrlq, bands,
                   rlock, lcloseVars, shouldStop, mpc, retryTime, elapsed,
                   sband, nsleeps, allFast, fault>>
    /\ UNCHANGED <<exchVars, storeVars>>
    /\ UNCHANGED <<laddr, biam>>

\* part_001:131-153: the reply is read; a failed read returns the error;
\* a kind other than Accept closes the connection and returns the error
\* naming the kind; a payload that does not parse returns the error; else
\* leash.uuid and leash.key take the uuid and key i of the accept frame
\* (147-148), go leash.respond() and return nil
Dial_ReadReply(i) ==
    /\ Running
    /\ epc = "dial_read"
    /\ \E r \in HandshakeReplies(lconn, lpeer) :
         /\ lfr' = [st |-> r.st, kind |-> r.kind]
         /\ err' = IF r.st # "ok" THEN Err("read")
                   ELSE IF r.kind # KindAccept THEN StrangeErr(r.kind)
                   ELSE IF ~r.good THEN Err("json")
                   ELSE NoErr
         /\ lconn' = IF r.st = "ok" /\ r.kind # KindAccept
                     THEN "closed" ELSE lconn
         /\ responding' = (r.st = "ok" /\ r.kind = KindAccept /\ r.good)
         /\ lident' = IF r.st = "ok" /\ r.kind = KindAccept /\ r.good
                      THEN i ELSE lident
         /\ qident' = IF r.st = "ok" /\ r.kind = KindAccept /\ r.good
                      THEN i ELSE qident
         /\ epc' = IF r.st = "ok" /\ r.kind = KindAccept /\ r.good
                   THEN "mount" ELSE "attempt_done"
    /\ UNCHANGED <<bandVars, listenVars, closeVars, lpeer, ctrlq, bands,
                   rlock, lcloseVars, shouldStop, mpc, retryTime, elapsed,
                   sband, nsleeps, allFast, fault>>
    /\ UNCHANGED <<exchVars, storeVars>>
    /\ UNCHANGED <<laddr, biam>>

(***************************************************************************)
(* Leash.Mount: the mount-registration frame is sent; a failure (ok is     *)
(* false, or the write fails) is returned to the caller.                   *)
(***************************************************************************)
Mount(ok) ==
    /\ Running
    /\ epc = "mount"
    /\ IF ok /\ ~WriteFails(lconn, lpeer)
       THEN /\ epc' = "listen"
            /\ UNCHANGED err
       ELSE /\ err' = Err("mount")
            /\ epc' = "attempt_done"
    /\ lfr' = ResNone
    /\ UNCHANGED <<bandVars, listenVars, closeVars, leashVars, lcloseVars,
                   shouldStop, mpc, retryTime, elapsed, sband, nsleeps,
                   allFast, fault>>
    /\ UNCHANGED <<exchVars, storeVars>>
    /\ UNCHANGED identVars

(***************************************************************************)
(* Leash.Listen (part_001:217-238) and Leash.handleFrame (242-253).        *)
(***************************************************************************)
\* part_001:221-233: one control frame is read; io.EOF breaks the loop and
\* Listen returns err; any other error is logged and, like a frame, goes
\* on to handleFrame(kind, data)
Listen_Read ==
    /\ Running
    /\ epc = "listen"
    /\ \E r \in ReadResults(lconn, lpeer, ctrlq) :
         /\ lfr' = r
         /\ ctrlq' = IF r.st = "ok" THEN Tail(ctrlq) ELSE ctrlq
         /\ epc' = IF r.st = "eof" THEN "attempt_done" ELSE "handle"
         /\ err' = IF r.st = "eof" THEN Err("EOF") ELSE err
    /\ UNCHANGED <<bandVars, listenVars, closeVars, lconn, lpeer, bands,
                   rlock, responding, lcloseVars, shouldStop, mpc,
                   retryTime, elapsed, sband, nsleeps, allFast, fault>>
    /\ UNCHANGED <<exchVars, storeVars>>
    /\ UNCHANGED identVars

\* part_001:243-252: FrameKindNeedBand calls leash.NewBand(), any other
\* kind is dropped
handleFrame ==
    /\ Running
    /\ epc = "handle"
    /\ epc' = IF lfr.kind = KindNeedBand THEN "spawn_dial" ELSE "listen"
    /\ lfr' = ResNone
    /\ UNCHANGED <<bandVars, listenVars, closeVars, leashVars, lcloseVars,
                   shouldStop, mpc, retryTime, elapsed, err, sband,
                   nsleeps, allFast, fault>>
    /\ UNCHANGED <<exchVars, storeVars>>
    /\ UNCHANGED identVars

(***************************************************************************)
(* spawnBand (band.go:26-87), called by Leash.NewBand (part_001:198-204).  *)
(* The band being built takes the first unused identity.                   *)
(***************************************************************************)
Unused == {b \in Bands : conn[b] = "none"}
FirstUnused == CHOOSE b \in Unused : \A c \in Unused : b <= c

\* band.go:39-43: tls.Dial; when it fails conn is nil and conn.Close()
\* dereferences it
spawnBand_Dial(ok) ==
    /\ Running
    /\ epc = "spawn_dial"
    /\ Unused # {}
    /\ IF ok
       THEN /\ conn' = [conn EXCEPT ![FirstUnused] = "open"]
            /\ biam' = [biam EXCEPT ![FirstUnused].addr = laddr]
            /\ sband' = FirstUnused
            /\ epc' = "spawn_write"
            /\ UNCHANGED fault
       ELSE /\ fault' = "spawnBand: conn.Close() on nil"
            /\ UNCHANGED <<conn, sband, epc, biam>>
    /\ UNCHANGED <<peer, inq, listening, isGarbage, stopNotify, listenVars,
                   closeVars, leashVars, lcloseVars, shouldStop, mpc,
                   retryTime, elapsed, err, lfr, nsleeps, allFast>>
    /\ UNCHANGED <<exchVars, storeVars>>
    /\ UNCHANGED <<lident, laddr, qident>>

\* a band that presents the key the cell logged in with
spawnBand_WriteIAmLoginKey ==
    /\ Running
    /\ epc = "spawn_write"
    /\ IF WriteFails(conn[sband], peer[sband])
       THEN /\ conn' = [conn EXCEPT ![sband] = "closed"]
            /\ sband' = NilBand
            /\ err' = Err("write")
            /\ epc' = "newband"
            /\ UNCHANGED biam
       ELSE /\ epc' = "spawn_read"
            /\ biam' = [biam EXCEPT ![sband] =
                          [addr |-> @.addr, connKind |-> "band",
                           uuid |-> lident.uuid, key |-> LoginKey]]
            /\ UNCHANGED <<conn, sband, err>>
    /\ UNCHANGED <<peer, inq, listening, isGarbage, stopNotify, listenVars,
                   closeVars, leashVars, lcloseVars, shouldStop, mpc,
                   retryTime, elapsed, lfr, nsleeps, allFast, fault>>
    /\ UNCHANGED <<exchVars, storeVars>>
    /\ UNCHANGED <<lident, laddr, qident>>

\* band.go:49-57 with part_001:199-201: the identity frame is written, with
\* ConnKindBand and the uuid and key NewBand passes, leash.uuid and
\* leash.key; on failure conn.Close() and return nil, err
spawnBand_WriteIAm ==
    /\ Running
    /\ epc = "spawn_write"
    /\ IF WriteFails(conn[sband], peer[sband])
       THEN /\ conn' = [conn EXCEPT ![sband] = "closed"]
            /\ sband' = NilBand
            /\ err' = Err("write")
            /\ epc' = "newband"
            /\ UNCHANGED biam
       ELSE /\ epc' = "spawn_read"
            /\ biam' = [biam EXCEPT ![sband] =
                          [addr |-> @.addr, connKind |-> "band",
                           uuid |-> lident.uuid, key |-> lident.key]]
            /\ UNCHANGED <<conn, sband, err>>
    /\ UNCHANGED <<peer, inq, listening, isGarbage, stopNotify, listenVars,
                   closeVars, leashVars, lcloseVars, shouldStop, mpc,
                   retryTime, elapsed, lfr, nsleeps, allFast, fault>>
    /\ UNCHANGED <<exchVars, storeVars>>
    /\ UNCHANGED <<lident, laddr, qident>>

\* band.go:59-86: the reply is read; a failed read, a kind other than
\* Accept (the error names the kind) and a payload that does not parse all
\* conn.Close() and return nil, err; else the band is built,
\* go band.listen(), return band, nil
spawnBand_ReadReply ==
    /\ Running
    /\ epc = "spawn_read"
    /\ \E r \in HandshakeReplies(conn[sband], peer[sband]) :
         /\ lfr' = [st |-> r.st, kind |-> r.kind]
         /\ err' = IF r.st # "ok" THEN Err("read")
                   ELSE IF r.kind # KindAccept THEN StrangeErr(r.kind)
                   ELSE IF ~r.good THEN Err("json")
                   ELSE NoErr
         /\ conn' = [conn EXCEPT ![sband] =
                       IF r.st = "ok" /\ r.kind = KindAccept /\ r.good
                       THEN @ ELSE "closed"]
         /\ lpc' = [lpc EXCEPT ![sband] =
                      IF r.st = "ok" /\ r.kind = KindAccept /\ r.good
                      THEN "spawned" ELSE @]
         /\ sband' = IF r.st = "ok" /\ r.kind = KindAccept /\ r.good
                     THEN sband ELSE NilBand
    /\ epc' = "newband"
    /\ UNCHANGED <<peer, inq, listening, isGarbage, stopNotify, lres, lchan,
                   hops, hop, closeVars, leashVars, lcloseVars, shouldStop,
                   mpc, retryTime, elapsed, nsleeps, allFast, fault>>
    /\ UNCHANGED <<exchVars, storeVars>>
    /\ UNCHANGED identVars

(***************************************************************************)
(* Leash.NewBand (part_001:196-213) and Leash.cleanBands (182-191).        *)
(***************************************************************************)
\* part_001:206-208: Lock; leash.bands[band] = nil; Unlock -- whatever
\* spawnBand returned, the nil band included
NewBand_Insert ==
    /\ Running
    /\ epc = "newband"
    /\ rlock = {}
    /\ bands' = bands \cup {sband}
    /\ epc' = "clean"
    /\ UNCHANGED <<bandVars, listenVars, closeVars, lconn, lpeer, ctrlq,
                   rlock, responding, lcloseVars, shouldStop, mpc,
                   retryTime, elapsed, err, lfr, sband, nsleeps, allFast,
                   fault>>
    /\ UNCHANGED <<exchVars, storeVars>>
    /\ UNCHANGED identVars

\* part_001:183-190, 211-212: under the write lock every band of the
\* registry has its flag read (through nil for the nil key) and the bands
\* that are no longer open are deleted; NewBand then returns err to
\* handleFrame, which logs it (part_001:247-250).  The flag is written
\* band.open there; Band (band.go:15-24) has no such field, the one its
\* read task sets on exit is isGarbage.
cleanBands ==
    /\ Running
    /\ epc = "clean"
    /\ rlock = {}
    /\ IF NilBand \in bands
       THEN /\ fault' = "cleanBands: band.open on nil"
            /\ UNCHANGED <<bands, epc>>
       ELSE /\ bands' = {b \in bands : ~isGarbage[b]}
            /\ epc' = "listen"
            /\ UNCHANGED fault
    /\ err' = NoErr
    /\ sband' = NilBand
    /\ lfr' = ResNone
    /\ UNCHANGED <<bandVars, listenVars, closeVars, lconn, lpeer, ctrlq,
                   rlock, responding, lcloseVars, shouldStop, mpc,
                   retryTime, elapsed, nsleeps, allFast>>
    /\ UNCHANGED <<exchVars, storeVars>>
    /\ UNCHANGED identVars

(***************************************************************************)
(* Cell.ensure and Cell.ensureOnce (part_004:397-438), the reconnect task. *)
(***************************************************************************)
\* part_004:400-402: for !cell.shouldStop { lastEnsureTime := time.Now();
\* err := cell.ensureOnce() ... }, and ensureOnce calls Dial (425)
ensure_Loop ==
    /\ Running
    /\ epc = "loop"
    /\ epc' = IF shouldStop THEN "exited" ELSE "dial"
    /\ UNCHANGED <<bandVars, listenVars, closeVars, leashVars, lcloseVars,
                   shouldStop, mpc, retryTime, elapsed, err, lfr, sband,
                   nsleeps, allFast, fault>>
    /\ UNCHANGED <<exchVars, storeVars>>
    /\ UNCHANGED identVars

\* a backoff that resets to the initial value instead of two seconds
NextRetryTimeResetInitial(r, e) ==
    IF e > FastLimit THEN InitialRetry
    ELSE IF r < RetryCap THEN (r * 3) \div 2
    ELSE r

\* a backoff that keeps growing
NextRetryTimeNoCap(r, e) ==
    IF e > FastLimit THEN ResetRetry
    ELSE (r * 3) \div 2

\* a backoff that doubles
NextRetryTimeDouble(r, e) ==
    IF e > FastLimit THEN ResetRetry
    ELSE IF r < RetryCap THEN r * 2
    ELSE r

\* part_004:409-413: the backoff after an attempt that took e seconds
NextRetryTime(r, e) ==
    IF e > FastLimit THEN ResetRetry
    ELSE IF r < RetryCap THEN (r * 3) \div 2
    ELSE r

\* an ensure that does not look at shouldStop after the attempt
ensure_AfterAttemptNoStopCheck(e) ==
    /\ Running
    /\ epc = "attempt_done"
    /\ elapsed' = e
    /\ err' = NoErr
    /\ lfr' = ResNone
    /\ epc' = "sleep"
    /\ retryTime' = NextRetryTime(retryTime, e)
    /\ allFast' = (allFast /\ e < FastLimit)
    /\ nsleeps' = IF ~allFast' THEN 0
                   ELSE IF nsleeps < MaxSleeps THEN nsleeps + 1
                   ELSE nsleeps
    /\ UNCHANGED <<bandVars, listenVars, closeVars, leashVars, lcloseVars,
                   shouldStop, mpc, sband, fault>>
    /\ UNCHANGED <<exchVars, storeVars>>
    /\ UNCHANGED identVars

\* part_004:404-413, after ensureOnce has returned err (426-437, from
\* Dial, Mount or Listen) e seconds after lastEnsureTime:
\* if cell.shouldStop { return }, else the backoff is updated
ensure_AfterAttempt(e) ==
    /\ Running
    /\ epc = "attempt_done"
    /\ elapsed' = e
    /\ err' = NoErr
    /\ lfr' = ResNone
    /\ IF shouldStop
       THEN /\ epc' = "exited"
            /\ UNCHANGED <<retryTime, nsleeps, allFast>>
       ELSE /\ epc' = "sleep"
            /\ retryTime' = NextRetryTime(retryTime, e)
            /\ allFast' = (allFast /\ e < FastLimit)
            /\ nsleeps' = IF ~allFast' THEN 0
                           ELSE IF nsleeps < MaxSleeps THEN nsleeps + 1
                           ELSE nsleeps
    /\ UNCHANGED <<bandVars, listenVars, closeVars, leashVars, lcloseVars,
                   shouldStop, mpc, sband, fault>>
    /\ UNCHANGED <<exchVars, storeVars>>
    /\ UNCHANGED identVars

\* part_004:420: time.Sleep(time.Duration(retryTime) * time.Second)
ensure_Sleep ==
    /\ Running
    /\ epc = "sleep"
    /\ epc' = "loop"
    /\ elapsed' = 0
    /\ UNCHANGED <<bandVars, listenVars, closeVars, leashVars, lcloseVars,
                   shouldStop, mpc, retryTime, err, lfr, sband,
                   nsleeps, allFast, fault>>
    /\ UNCHANGED <<exchVars, storeVars>>
    /\ UNCHANGED identVars

(***************************************************************************)
(* The queen's end of the control connection, once it has accepted the     *)
(* session.  Queen_SendCtrl asks for one band in a run of the program: it  *)
(* asks while no band was asked for or spawned before.  Queen_NeedBand     *)
(* asks for a band whenever a band identity is left for it.                *)
(***************************************************************************)
Accepted == epc \in {"mount", "listen", "handle", "spawn_dial",
                     "spawn_write", "spawn_read", "newband", "clean"}
BandWanted ==
    \/ KindNeedBand \in {ctrlq[i] : i \in 1..Len(ctrlq)}
    \/ (epc = "handle" /\ lfr.kind = KindNeedBand)
    \/ epc \in {"spawn_dial", "spawn_write", "spawn_read", "newband", "clean"}
    \/ \E b \in Bands : conn[b] # "none"

\* the bands asked for and not yet dialled by spawnBand
PendingBands ==
    Cardinality({i \in 1..Len(ctrlq) : ctrlq[i] = KindNeedBand})
        + (IF epc = "handle" /\ lfr.kind = KindNeedBand THEN 1 ELSE 0)
        + (IF epc = "spawn_dial" THEN 1 ELSE 0)

Queen_NeedBand ==
    /\ Running
    /\ Accepted
    /\ lconn = "open"
    /\ lpeer = "up"
    /\ Len(ctrlq) < MaxCtrl
    /\ PendingBands < Cardinality(Unused)
    /\ ctrlq' = Append(ctrlq, KindNeedBand)
    /\ UNCHANGED <<bandVars, listenVars, closeVars, lconn, lpeer, bands,
                   rlock, responding, lcloseVars, cellVars, fault>>
    /\ UNCHANGED <<exchVars, storeVars>>
    /\ UNCHANGED identVars

Queen_SendCtrl(k) ==
    /\ Running
    /\ Accepted
    /\ lconn = "open"
    /\ lpeer = "up"
    /\ Len(ctrlq) < MaxCtrl
    /\ k = KindNeedBand => (Unused # {} /\ ~BandWanted)
    /\ ctrlq' = Append(ctrlq, k)
    /\ UNCHANGED <<bandVars, listenVars, closeVars, lconn, lpeer, bands,
                   rlock, responding, lcloseVars, cellVars, fault>>
    /\ UNCHANGED <<exchVars, storeVars>>
    /\ UNCHANGED identVars

\* the queen closes the control connection ("eof") or it breaks ("reset")
Queen_DropCtrl(how) ==
    /\ Running
    /\ lconn = "open"
    /\ lpeer = "up"
    /\ lpeer' = how
    /\ UNCHANGED <<bandVars, listenVars, closeVars, lconn, ctrlq, bands,
                   rlock, responding, lcloseVars, cellVars, fault>>
    /\ UNCHANGED <<exchVars, storeVars>>
    /\ UNCHANGED identVars

(***************************************************************************)
(* The channel on its own: band 1 as spawnBand leaves it (band.go:78-86:   *)
(* the object built, go band.listen() issued), and two tasks that each     *)
(* call its Close once, as Leash.Close does for every registered band.     *)
(***************************************************************************)
\* part_001:165-167: band.Close() called by a task other than a read task
CallClose(t, b) ==
    /\ Running
    /\ cpc[t] = "idle"
    /\ lcpc[t] = "none"
    /\ conn[b] # "none"
    /\ cpc' = [cpc EXCEPT ![t] = "check"]
    /\ cband' = [cband EXCEPT ![t] = b]
    /\ UNCHANGED <<bandVars, listenVars, cchan, csaw>>
    /\ UNCHANGED sessVars
    /\ UNCHANGED <<exchVars, storeVars>>
    /\ UNCHANGED identVars

\* what store.TryHandle returned: nothing yet, or handled and err != nil
NoTry == [done |-> FALSE, handled |-> FALSE, err |-> FALSE]
Tried(h, e) == [done |-> TRUE, handled |-> h, err |-> e]

\* what a body read returns: getNext, data, err, and the frame it read
NoRet == [op |-> "none", more |-> FALSE, data |-> <<>>, err |-> "nil",
          kind |-> KindIAm, payload |-> <<>>]

(***************************************************************************)
(* The store of static files (part_005).  Paths are strings, here          *)
(* sequences of the characters "/" and "a" of one to MaxPath characters.   *)
(* No directory is registered.                                             *)
(***************************************************************************)
Chars == {"/", "a"}
Paths == UNION {[1..n -> Chars] : n \in 1..MaxPath}
FilePaths == {<<"f">>, <<"/", "f">>}

\* part_005:29-33: New drops the slash that ends root
New(r) == IF r[Len(r)] = "/" THEN SubSeq(r, 1, Len(r) - 1) ELSE r
root == New(<<"/", "r", "/">>)

\* part_005:52-57: a path that does not begin with a slash is given one
LeadSlash(p) == IF p[1] # "/" THEN <<"/">> \o p ELSE p

NoFile == [FilePath |-> <<>>, AutoReload |-> FALSE]
NoCall == [op |-> "none", webPath |-> <<>>, err |-> "nil",
           handled |-> FALSE, file |-> NoFile]

\* part_005:34-39: the store New returns, on which nothing was called yet
StoreNew ==
    /\ lazyFiles = <<>>
    /\ scall = NoCall

\* no exchange: no request head has been dispatched
ExchangeParked ==
    /\ hpc = "none"
    /\ xconn = "up"
    /\ xin = <<>>
    /\ xout = <<>>
    /\ nsent = 0
    /\ askedForBody = FALSE
    /\ maxBodySize = 0
    /\ lastSet = 0
    /\ calls = 0
    /\ nreads = 0
    /\ chunks = 0
    /\ body = <<>>
    /\ got = <<>>
    /\ ret = NoRet
    /\ wrote = <<>>
    /\ tried = NoTry
    /\ invoked = 0
    /\ reads = <<>>

\* no session: the reconnect task and the main task do not run
SessionParked ==
    /\ lconn = "nil"
    /\ lpeer = "up"
    /\ ctrlq = <<>>
    /\ bands = {}
    /\ rlock = {}
    /\ responding = FALSE
    /\ lcpc = [t \in ExtTasks |-> "none"]
    /\ todo = [t \in ExtTasks |-> {}]
    /\ shouldStop = FALSE
    /\ mpc = "none"
    /\ epc = "none"
    /\ retryTime = InitialRetry
    /\ elapsed = 0
    /\ err = NoErr
    /\ lfr = ResNone
    /\ sband = NilBand
    /\ nsleeps = 0
    /\ allFast = TRUE
    /\ fault = "none"
    /\ lident = NoIdent
    /\ laddr = NoAddr
    /\ qident = NoIdent
    /\ biam = [b \in Bands |-> NoIAm]

InitBand ==
    /\ conn = [b \in Bands |-> IF b = 1 THEN "open" ELSE "none"]
    /\ peer = [b \in Bands |-> "up"]
    /\ inq = [b \in Bands |-> <<>>]
    /\ listening = [b \in Bands |-> FALSE]
    /\ isGarbage = [b \in Bands |-> FALSE]
    /\ stopNotify = [b \in Bands |-> NoChan]
    /\ lpc = [b \in Bands |-> IF b = 1 THEN "spawned" ELSE "none"]
    /\ lres = [b \in Bands |-> ResNone]
    /\ lchan = [b \in Bands |-> NoChan]
    /\ hops = [b \in Bands |-> 0]
    /\ hop = [b \in Bands |-> NoOp]
    /\ cpc = [t \in Tasks |-> "idle"]
    /\ cband = [t \in Tasks |-> 1]
    /\ cchan = [t \in Tasks |-> NoChan]
    /\ csaw = [t \in Tasks |-> FALSE]
    /\ SessionParked
    /\ ExchangeParked
    /\ StoreNew

\* Band.listen, from go band.listen() to its return
ListenStep(b) ==
    \/ listen_Start(b)
    \/ listen_Read(b)
    \/ listen_CheckStop(b)
    \/ listen_EvalChan(b)
    \/ listen_Dispatch(b)
    \/ listen_Exit1(b)
    \/ listen_Exit2(b)

\* Leash.handleBandFrame and the channel I/O of the request handler it calls
HandlerStep(b) ==
    \/ handleBandFrame_Ignore(b)
    \/ ReadParseFrame(b)
    \/ WriteMarshalFrame(b)
    \/ WriteHTTPHead(b)
    \/ WriteHTTPBody(b)
    \/ AskForHTTPBody(b)
    \/ ReadHTTPBody(b)
    \/ writeHTTPEnd(b)

CloseStep(t) ==
    \/ Close_Check(t)
    \/ Close_Install(t)
    \/ Close_ConnClose(t)
    \/ Close_EvalRecv(t)
    \/ \E b \in Bands : Close_Recv(t, b)

QueenBandStep(b) ==
    \/ \E k \in BandInKinds : Queen_SendBand(b, k)
    \/ \E how \in {"eof", "reset"} : Queen_DropBand(b, how)

NextBand ==
    \/ \E b \in Bands : ListenStep(b)
    \/ \E b \in Bands : HandlerStep(b)
    \/ \E t \in Tasks : CloseStep(t)
    \/ \E t \in ExtTasks, b \in Bands : CallClose(t, b)
    \/ \E b \in Bands : QueenBandStep(b)

SpecBand == InitBand /\ [][NextBand]_vars

(***************************************************************************)
(* The program: Cell.Run (part_004:247-280) has built the leash and issued *)
(* go cell.ensure(); the main task waits for a signal and then calls       *)
(* Cell.Stop.  Bands come into being through spawnBand only.               *)
(***************************************************************************)
Init ==
    /\ conn = [b \in Bands |-> "none"]
    /\ peer = [b \in Bands |-> "up"]
    /\ inq = [b \in Bands |-> <<>>]
    /\ listening = [b \in Bands |-> FALSE]
    /\ isGarbage = [b \in Bands |-> FALSE]
    /\ stopNotify = [b \in Bands |-> NoChan]
    /\ lpc = [b \in Bands |-> "none"]
    /\ lres = [b \in Bands |-> ResNone]
    /\ lchan = [b \in Bands |-> NoChan]
    /\ hops = [b \in Bands |-> 0]
    /\ hop = [b \in Bands |-> NoOp]
    /\ cpc = [t \in Tasks |-> "idle"]
    /\ cband = [t \in Tasks |-> 1]
    /\ cchan = [t \in Tasks |-> NoChan]
    /\ csaw = [t \in Tasks |-> FALSE]
    /\ lconn = "nil"
    /\ lpeer = "up"
    /\ ctrlq = <<>>
    /\ bands = {}
    /\ rlock = {}
    /\ responding = FALSE
    /\ lcpc = [t \in ExtTasks |-> "none"]
    /\ todo = [t \in ExtTasks |-> {}]
    /\ shouldStop = FALSE
    /\ mpc = "run"
    /\ epc = "loop"
    /\ retryTime = InitialRetry
    /\ elapsed = 0
    /\ err = NoErr
    /\ lfr = ResNone
    /\ sband = NilBand
    /\ nsleeps = 0
    /\ allFast = TRUE
    /\ fault = "none"
    /\ lident = NoIdent
    /\ laddr = NoAddr
    /\ qident = NoIdent
    /\ biam = [b \in Bands |-> NoIAm]
    /\ ExchangeParked
    /\ StoreNew

\* Leash.Close, but for its walk over the bands
LeashCloseStep(t) ==
    \/ LeashClose_Conn(t)
    \/ LeashClose_RLock(t)
    \/ LeashClose_Return(t)

\* part_001:165-167: Leash.Close's walk over the bands
LeashCloseBandsStep(t) ==
    \/ LeashClose_Range(t)
    \/ LeashClose_BandClosed(t)

\* Cell.ensureOnce's calls, Dial, Mount and Listen, and the loop around it
ReconnectStep(A, I) ==
    \/ ensure_Loop
    \/ Dial_Begin
    \/ \E out \in {"ok", "cert", "dial"}, a \in A : Dial_TLS(out, a)
    \/ Dial_WriteIAm
    \/ \E i \in I : Dial_ReadReply(i)
    \/ \E ok \in BOOLEAN : Mount(ok)
    \/ Listen_Read
    \/ handleFrame
    \/ ensure_Sleep

\* Leash.NewBand, called from Listen through handleFrame
NewBandStep ==
    \/ \E ok \in BOOLEAN : spawnBand_Dial(ok)
    \/ spawnBand_WriteIAm
    \/ spawnBand_ReadReply
    \/ NewBand_Insert
    \/ cleanBands

\* The session with its bands.  Every attempt is taken to have lasted more
\* than ten seconds; the backoff arithmetic is the subject of SpecReconnect.
\* The queen sends no request down a band; the requests and their handlers
\* are the subject of SpecBand.
Next ==
    \/ ReconnectStep(FirstAddr, FirstIdent)
    \/ ensure_AfterAttempt(FastLimit + 1)
    \/ NewBandStep
    \/ Stop
    \/ \E t \in ExtTasks : LeashCloseStep(t)
    \/ \E t \in ExtTasks : LeashCloseBandsStep(t)
    \/ \E k \in {KindNeedBand, KindHTTPReqHead} : Queen_SendCtrl(k)
    \/ \E how \in {"eof", "reset"} : Queen_DropCtrl(how)
    \/ \E b \in Bands : ListenStep(b)
    \/ \E t \in Tasks : CloseStep(t)
    \/ \E b \in Bands, how \in {"eof", "reset"} : Queen_DropBand(b, how)

Spec == Init /\ [][Next]_vars

\* The reconnect loop on its own: attempts of any length, and a queen that
\* never asks for a band.
NextReconnect ==
    \/ ReconnectStep(FirstAddr, FirstIdent)
    \/ \E e \in Elapsed : ensure_AfterAttempt(e)
    \/ Stop
    \/ \E t \in ExtTasks : LeashCloseStep(t)
    \/ Queen_SendCtrl(KindHTTPReqHead)
    \/ \E how \in {"eof", "reset"} : Queen_DropCtrl(how)

SpecReconnect == Init /\ [][NextReconnect]_vars

(***************************************************************************)
(* The registry of bands over reconnects.  The session is established      *)
(* (Dial and Mount have succeeded, Leash.Listen is reading); the queen     *)
(* asks for bands, ends the session, and accepts the next one, whose Dial  *)
(* closes the bands of the old one (part_001:75-78).  No signal arrives:   *)
(* Cell.Stop is not called.                                                *)
(***************************************************************************)
InitRegistry ==
    /\ conn = [b \in Bands |-> "none"]
    /\ peer = [b \in Bands |-> "up"]
    /\ inq = [b \in Bands |-> <<>>]
    /\ listening = [b \in Bands |-> FALSE]
    /\ isGarbage = [b \in Bands |-> FALSE]
    /\ stopNotify = [b \in Bands |-> NoChan]
    /\ lpc = [b \in Bands |-> "none"]
    /\ lres = [b \in Bands |-> ResNone]
    /\ lchan = [b \in Bands |-> NoChan]
    /\ hops = [b \in Bands |-> 0]
    /\ hop = [b \in Bands |-> NoOp]
    /\ cpc = [t \in Tasks |-> "idle"]
    /\ cband = [t \in Tasks |-> 1]
    /\ cchan = [t \in Tasks |-> NoChan]
    /\ csaw = [t \in Tasks |-> FALSE]
    /\ lconn = "open"
    /\ lpeer = "up"
    /\ ctrlq = <<>>
    /\ bands = {}
    /\ rlock = {}
    /\ responding = TRUE
    /\ lcpc = [t \in ExtTasks |-> "none"]
    /\ todo = [t \in ExtTasks |-> {}]
    /\ shouldStop = FALSE
    /\ mpc = "run"
    /\ epc = "listen"
    /\ retryTime = InitialRetry
    /\ elapsed = 0
    /\ err = NoErr
    /\ lfr = ResNone
    /\ sband = NilBand
    /\ nsleeps = 0
    /\ allFast = TRUE
    /\ fault = "none"
    /\ lident \in FirstIdent
    /\ laddr \in FirstAddr
    /\ qident = lident
    /\ biam = [b \in Bands |-> NoIAm]
    /\ ExchangeParked
    /\ StoreNew

NextRegistry ==
    \/ ReconnectStep(FirstAddr, FirstIdent)
    \/ ensure_AfterAttempt(FastLimit + 1)
    \/ NewBandStep
    \/ LeashCloseStep(EnsureTask)
    \/ LeashCloseBandsStep(EnsureTask)
    \/ Queen_NeedBand
    \/ Queen_DropCtrl("eof")
    \/ \E b \in Bands : Queen_DropBand(b, "eof")
    \/ \E b \in Bands : ListenStep(b)
    \/ CloseStep(EnsureTask)

SpecRegistry == InitRegistry /\ [][NextRegistry]_vars

(***************************************************************************)
(* One exchange on a band.  Leash.handleBandFrame (part_001:257-274) has   *)
(* been called by Band.listen with a request head and calls the handler,   *)
(* Cell.onHTTP (part_004:327-348), on the band's read task: the static     *)
(* store first (store.go:115-140, 191-231, 271-324), the application's     *)
(* OnHTTP otherwise, whose calls on HTTPResponse (part_000) and            *)
(* HTTPRequest (http-request.go) are any sequence of at most MaxCalls.     *)
(* xout records every frame handed to band.writer, written or not.         *)
(***************************************************************************)
\* http-request.go:33
DefaultMaxBodySize == 8192
\* arguments of SetMaxBodySize
Sizes == {0, 2048}

\* frames the queen may send during an exchange: body chunks, the end of
\* the body (with or without a payload) and a frame of another kind
InFrames ==
    {[kind |-> KindHTTPReqBody, data |-> <<1>>],
     [kind |-> KindHTTPReqBody, data |-> <<2>>],
     [kind |-> KindHTTPReqEnd, data |-> <<>>],
     [kind |-> KindHTTPReqEnd, data |-> <<9>>],
     [kind |-> KindHTTPReqHead, data |-> <<7>>]}

\* a header map: nil, or a map with the given keys (band.go:179)
NilHeaders == [nil |-> TRUE, entries |-> {}]
Headers(S) == [nil |-> FALSE, entries |-> S]
\* the header maps a handler may pass to WriteHead
HeaderArgs == {NilHeaders, Headers({}), Headers({"content-type"})}
\* the chunks a handler may pass to WriteBody
ChunkArgs == {<<1>>, <<2>>}

\* a frame handed to band.writer: its kind, its number (the status code of
\* a head, the size of a want), the header map of a head, and the payload
\* of a body; a frame has NilHeaders where it carries no header map
Out(k, a) == [kind |-> k, arg |-> a, headers |-> NilHeaders, data |-> <<>>]
OutHead(code, h) ==
    [kind |-> KindHTTPResHead, arg |-> code, headers |-> h, data |-> <<>>]
OutBody(d) ==
    [kind |-> KindHTTPResBody, arg |-> 0, headers |-> NilHeaders, data |-> d]

\* a WriteHTTPHead that passes the map on as it is given
HeadersAsGiven(h) == h

\* band.go:184-186: if headers == nil { headers = make(map[string][]string) }
HeadersOrEmpty(h) == IF h.nil THEN Headers({}) ELSE h

\* store.go:241-251: the header map LazyFile.sendHeaders builds
StoreHeaders == Headers({"content-type", "content-length"})

\* protocol.ReadParseFrame(band.reader): the next frame, an error once
\* the connection is closed or reset and drained; it blocks otherwise
XReadResults ==
    IF xconn = "closed"
    THEN {[st |-> "err", kind |-> KindIAm, data |-> <<>>, n |-> 0]}
    ELSE IF xin # <<>>
    THEN {[st |-> "ok", kind |-> Head(xin).kind, data |-> Head(xin).data,
           n |-> Head(xin).n]}
    ELSE IF xconn = "reset"
    THEN {[st |-> "err", kind |-> KindIAm, data |-> <<>>, n |-> 0]}
    ELSE {}

\* band.go:226-244: what ReadHTTPBody returns for the result r of
\* band.ReadParseFrame()
ReadHTTPBody_Return(r) ==
    IF r.st # "ok" THEN [more |-> FALSE, data |-> <<>>, err |-> "read"]
    ELSE IF r.kind = KindHTTPReqBody
    THEN [more |-> TRUE, data |-> r.data, err |-> "nil"]
    ELSE IF r.kind = KindHTTPReqEnd
    THEN [more |-> FALSE, data |-> r.data, err |-> "nil"]
    ELSE [more |-> FALSE, data |-> r.data, err |-> "unexpected kind"]

\* a ReadHTTPBodyFull that puts each chunk in front of the body
PrependBody(b, d) == d \o b

\* band.go:255: body = append(body, data...)
AppendBody(b, d) == b \o d

\* a request that sends the size as it was set
MaxBodySizeAsSet(n) == n

\* http-request.go:32-34
MaxBodySizeOrDefault(n) == IF n = 0 THEN DefaultMaxBodySize ELSE n

\* part_005:148-189, Store.TryHandle as called at part_004:328: a
\* registered file is sent (it returns true and the err of Send), the
\* lookup in a registered directory fails (false, err), or nothing matches
\* (false, nil)
TryHandle(o) ==
    /\ hpc = "onHTTP"
    /\ hpc' = IF o = "matched" THEN "Send" ELSE "tryhandled"
    /\ tried' = CASE o = "matched" -> tried
                  [] o = "finderr" -> Tried(FALSE, TRUE)
                  [] OTHER -> Tried(FALSE, FALSE)
    /\ UNCHANGED <<progVars, xconn, xin, xout, nsent, askedForBody,
                   maxBodySize, lastSet, calls, nreads, chunks, body, got,
                   ret>>
    /\ UNCHANGED <<wrote, invoked, reads>>

\* an onHTTP that goes on to the application when the store failed
onHTTP_AfterTryHandleIgnoreErr ==
    /\ hpc = "tryhandled"
    /\ hpc' = IF tried.handled /\ ~tried.err THEN "returned" ELSE "OnHTTP"
    /\ invoked' = IF tried.handled /\ ~tried.err THEN invoked
                  ELSE invoked + 1
    /\ UNCHANGED <<progVars, xconn, xin, xout, nsent, askedForBody,
                   maxBodySize, lastSet, calls, nreads, chunks, body, got,
                   ret>>
    /\ UNCHANGED <<wrote, tried, reads>>

\* part_004:330-347: return when err != nil, return when handled, else
\* build response and request and call cell.OnHTTP(response, request)
onHTTP_AfterTryHandle ==
    /\ hpc = "tryhandled"
    /\ hpc' = IF tried.err \/ tried.handled THEN "returned" ELSE "OnHTTP"
    /\ invoked' = IF tried.err \/ tried.handled THEN invoked
                  ELSE invoked + 1
    /\ UNCHANGED <<progVars, xconn, xin, xout, nsent, askedForBody,
                   maxBodySize, lastSet, calls, nreads, chunks, body, got,
                   ret>>
    /\ UNCHANGED <<wrote, tried, reads>>

\* store.go:199-220: the file's timestamp cannot be read (staterr), the
\* file is cached, or it is loaded (279-289: open or stat may fail)
Send_Start(o, n) ==
    /\ hpc = "Send"
    /\ hpc' = CASE o = "cached" -> "Send.sendHeaders"
                [] o = "load" -> "loadAndSend.sendHeaders"
                [] OTHER -> "tryhandled"
    /\ chunks' = IF o \in {"cached", "load"} THEN n ELSE 0
    /\ UNCHANGED <<progVars, xconn, xin, xout, nsent, askedForBody,
                   maxBodySize, lastSet, calls, nreads, body, got, ret>>
    /\ tried' = IF o \in {"cached", "load"} THEN tried
              ELSE Tried(TRUE, TRUE)
    /\ UNCHANGED <<wrote, invoked, reads>>

\* a store that sends the first chunk ahead of the headers
sendHeadersAfterChunk ==
    /\ hpc \in {"Send.sendHeaders", "loadAndSend.sendHeaders"}
    /\ xout' = xout \o <<Out(KindHTTPResBody, 0),
                        OutHead(200, HeadersOrEmpty(StoreHeaders))>>
    /\ hpc' = IF hpc = "Send.sendHeaders" THEN "Send.chunks"
              ELSE "loadAndSend.chunks"
    /\ UNCHANGED <<progVars, xconn, xin, nsent, askedForBody, maxBodySize,
                   lastSet, calls, nreads, chunks, body, got, ret>>
    /\ UNCHANGED <<wrote, tried, invoked, reads>>

\* store.go:235-255 (called at 217 and 308): band.WriteHTTPHead, whose
\* failed write calls band.Close() on the read task (band.go:168-170)
sendHeaders ==
    /\ hpc \in {"Send.sendHeaders", "loadAndSend.sendHeaders"}
    /\ xout' = Append(xout, OutHead(200, HeadersOrEmpty(StoreHeaders)))
    /\ IF xconn # "up"
       THEN /\ hpc' = "Close"
            /\ xconn' = "closed"
            /\ chunks' = 0
       ELSE /\ hpc' = IF hpc = "Send.sendHeaders" THEN "Send.chunks"
                      ELSE "loadAndSend.chunks"
            /\ UNCHANGED <<xconn, chunks>>
    /\ UNCHANGED <<progVars, xin, nsent, askedForBody, maxBodySize,
                   lastSet, calls, nreads, body, got, ret>>
    /\ UNCHANGED <<wrote, tried, invoked, reads>>

\* store.go:222-227: the next cached chunk; a failed write returns err
Send_Chunk ==
    /\ hpc = "Send.chunks"
    /\ xout' = Append(xout, Out(KindHTTPResBody, 0))
    /\ chunks' = IF xconn # "up" THEN 0 ELSE chunks - 1
    /\ hpc' = IF chunks' = 0 THEN "tryhandled" ELSE hpc
    /\ tried' = IF chunks' = 0 THEN Tried(TRUE, xconn # "up") ELSE tried
    /\ UNCHANGED <<progVars, xconn, xin, nsent, askedForBody, maxBodySize,
                   lastSet, calls, nreads, body, got, ret>>
    /\ UNCHANGED <<wrote, invoked, reads>>

\* store.go:294-320: the next chunk read from the file is written, the
\* result of the write is dropped (315); a chunk after the first may fail
\* to be read (296-302), which returns err
loadAndSend_Chunk(readerr) ==
    /\ hpc = "loadAndSend.chunks"
    /\ readerr => xout[Len(xout)].kind = KindHTTPResBody
    /\ xout' = IF readerr THEN xout
               ELSE Append(xout, Out(KindHTTPResBody, 0))
    /\ chunks' = IF readerr THEN 0 ELSE chunks - 1
    /\ hpc' = IF chunks' = 0 THEN "tryhandled" ELSE hpc
    /\ tried' = IF chunks' = 0 THEN Tried(TRUE, readerr) ELSE tried
    /\ UNCHANGED <<progVars, xconn, xin, nsent, askedForBody, maxBodySize,
                   lastSet, calls, nreads, body, got, ret>>
    /\ UNCHANGED <<wrote, invoked, reads>>

\* http-request.go:22-24
SetMaxBodySize(n) ==
    /\ hpc = "OnHTTP"
    /\ calls < MaxCalls
    /\ calls' = calls + 1
    /\ maxBodySize' = n
    /\ lastSet' = IF nreads = 0 THEN n ELSE lastSet
    /\ UNCHANGED <<progVars, hpc, xconn, xin, xout, nsent, askedForBody,
                   nreads, chunks, body, got, ret>>
    /\ UNCHANGED <<wrote, tried, invoked, reads>>

\* part_000:17-25 with band.go:177-191: a nil map is replaced by an empty
\* one and the head goes to WriteMarshalFrame, whose failed write calls
\* band.Close() on the read task
response_WriteHead(code, h) ==
    /\ hpc = "OnHTTP"
    /\ calls < MaxCalls
    /\ calls' = calls + 1
    /\ wrote' = Append(wrote, [op |-> "WriteHead", code |-> code,
                               headers |-> h, data |-> <<>>])
    /\ xout' = Append(xout, OutHead(code, HeadersOrEmpty(h)))
    /\ hpc' = IF xconn # "up" THEN "Close" ELSE hpc
    /\ xconn' = IF xconn # "up" THEN "closed" ELSE xconn
    /\ UNCHANGED <<progVars, xin, nsent, askedForBody, maxBodySize,
                   lastSet, nreads, chunks, body, got, ret>>
    /\ UNCHANGED <<tried, invoked, reads>>

\* a WriteBody that sends nothing for a chunk equal to the one before
response_WriteBodySkipRepeat(d) ==
    /\ hpc = "OnHTTP"
    /\ calls < MaxCalls
    /\ calls' = calls + 1
    /\ wrote' = Append(wrote, [op |-> "WriteBody", code |-> 0,
                               headers |-> NilHeaders, data |-> d])
    /\ xout' = IF xout # <<>> /\ xout[Len(xout)] = OutBody(d) THEN xout
               ELSE Append(xout, OutBody(d))
    /\ UNCHANGED <<progVars, hpc, xconn, xin, nsent, askedForBody,
                   maxBodySize, lastSet, nreads, chunks, body, got, ret>>
    /\ UNCHANGED <<tried, invoked, reads>>

\* part_000:29-32 with band.go:195-202: one frame, the kind byte followed
\* by the chunk; the error of the write is returned
response_WriteBody(d) ==
    /\ hpc = "OnHTTP"
    /\ calls < MaxCalls
    /\ calls' = calls + 1
    /\ wrote' = Append(wrote, [op |-> "WriteBody", code |-> 0,
                               headers |-> NilHeaders, data |-> d])
    /\ xout' = Append(xout, OutBody(d))
    /\ UNCHANGED <<progVars, hpc, xconn, xin, nsent, askedForBody,
                   maxBodySize, lastSet, nreads, chunks, body, got, ret>>
    /\ UNCHANGED <<tried, invoked, reads>>

\* a request that asks for the body at every read
request_ReadAsksAgain(op) ==
    /\ hpc = "OnHTTP"
    /\ calls < MaxCalls
    /\ calls' = calls + 1
    /\ nreads' = nreads + 1
    /\ body' = <<>>
    /\ got' = <<>>
    /\ ret' = NoRet
    /\ maxBodySize' = MaxBodySizeOrDefault(maxBodySize)
    /\ xout' = Append(xout, Out(KindHTTPResWant, maxBodySize'))
    /\ IF xconn # "up"
       THEN /\ hpc' = "Close"
            /\ xconn' = "closed"
            /\ UNCHANGED askedForBody
       ELSE /\ hpc' = IF op = "ReadBody" THEN "ReadHTTPBody"
                      ELSE "ReadHTTPBodyFull"
            /\ askedForBody' = TRUE
            /\ UNCHANGED xconn
    /\ UNCHANGED <<progVars, xin, nsent, lastSet, chunks>>
    /\ UNCHANGED <<wrote, tried, invoked, reads>>

\* http-request.go:49-53 and 61-65, ReadBody and ReadBodyFull up to their
\* call of the band: ensureBodyRequested (30-43) sends the body-want frame
\* (band.go:216-220) unless askedForBody; a failed write of it calls
\* band.Close() on the read task
request_Read(op) ==
    /\ hpc = "OnHTTP"
    /\ calls < MaxCalls
    /\ calls' = calls + 1
    /\ nreads' = nreads + 1
    /\ body' = <<>>
    /\ got' = <<>>
    /\ ret' = NoRet
    /\ IF askedForBody
       THEN /\ hpc' = IF op = "ReadBody" THEN "ReadHTTPBody"
                      ELSE "ReadHTTPBodyFull"
            /\ UNCHANGED <<xconn, xout, askedForBody, maxBodySize>>
       ELSE /\ maxBodySize' = MaxBodySizeOrDefault(maxBodySize)
            /\ xout' = Append(xout, Out(KindHTTPResWant, maxBodySize'))
            /\ IF xconn # "up"
               THEN /\ hpc' = "Close"
                    /\ xconn' = "closed"
                    /\ UNCHANGED askedForBody
               ELSE /\ hpc' = IF op = "ReadBody" THEN "ReadHTTPBody"
                              ELSE "ReadHTTPBodyFull"
                    /\ askedForBody' = TRUE
                    /\ UNCHANGED xconn
    /\ UNCHANGED <<progVars, xin, nsent, lastSet, chunks>>
    /\ UNCHANGED <<wrote, tried, invoked, reads>>

\* http-request.go:55 with band.go:226-244: one frame is read; a failed
\* read calls band.Close() on the read task (band.go:158-160)
ReadHTTPBody_Read ==
    /\ hpc = "ReadHTTPBody"
    /\ \E r \in XReadResults :
         IF r.st # "ok"
         THEN /\ hpc' = "Close"
              /\ xconn' = "closed"
              /\ UNCHANGED <<xin, ret, reads>>
         ELSE /\ hpc' = "OnHTTP"
              /\ xin' = Tail(xin)
              /\ reads' = Append(reads, [n |-> r.n, by |-> "handler"])
              /\ ret' = [op |-> "ReadBody",
                         more |-> ReadHTTPBody_Return(r).more,
                         data |-> ReadHTTPBody_Return(r).data,
                         err |-> ReadHTTPBody_Return(r).err,
                         kind |-> r.kind, payload |-> r.data]
              /\ UNCHANGED xconn
    /\ UNCHANGED <<progVars, xout, nsent, askedForBody, maxBodySize,
                   lastSet, calls, nreads, chunks, body, got>>
    /\ UNCHANGED <<wrote, tried, invoked>>

\* band.go:252-254: the data returned with an error is the data of the
\* ReadHTTPBody that failed, not the accumulated body
ReadHTTPBodyFull_ErrData(b, d) == d

\* http-request.go:67 with band.go:249-261: one turn of the loop of
\* ReadHTTPBodyFull; body chunks are appended until the end frame, whose
\* data is appended too
ReadHTTPBodyFull_Read ==
    /\ hpc = "ReadHTTPBodyFull"
    /\ \E r \in XReadResults :
         IF r.st # "ok"
         THEN /\ hpc' = "Close"
              /\ xconn' = "closed"
              /\ UNCHANGED <<xin, ret, body, got, reads>>
         ELSE /\ xin' = Tail(xin)
              /\ reads' = Append(reads, [n |-> r.n, by |-> "handler"])
              /\ got' = Append(got, [kind |-> r.kind, data |-> r.data])
              /\ UNCHANGED xconn
              /\ IF ReadHTTPBody_Return(r).err # "nil"
                 THEN /\ ret' = [op |-> "ReadBodyFull", more |-> FALSE,
                                 data |-> ReadHTTPBodyFull_ErrData(
                                              body, ReadHTTPBody_Return(r).data),
                                 err |-> ReadHTTPBody_Return(r).err,
                                 kind |-> r.kind, payload |-> r.data]
                      /\ body' = <<>>
                      /\ hpc' = "OnHTTP"
                 ELSE IF ReadHTTPBody_Return(r).more
                 THEN /\ body' = AppendBody(body, ReadHTTPBody_Return(r).data)
                      /\ UNCHANGED <<ret, hpc>>
                 ELSE /\ ret' = [op |-> "ReadBodyFull", more |-> FALSE,
                                 data |-> AppendBody(
                                              body, ReadHTTPBody_Return(r).data),
                                 err |-> "nil",
                                 kind |-> r.kind, payload |-> r.data]
                      /\ body' = <<>>
                      /\ hpc' = "OnHTTP"
    /\ UNCHANGED <<progVars, xout, nsent, askedForBody, maxBodySize,
                   lastSet, calls, nreads, chunks>>
    /\ UNCHANGED <<wrote, tried, invoked>>

\* part_004:347: cell.OnHTTP(response, request) returns
OnHTTP_Return ==
    /\ hpc = "OnHTTP"
    /\ hpc' = "returned"
    /\ UNCHANGED <<progVars, xconn, xin, xout, nsent, askedForBody,
                   maxBodySize, lastSet, calls, nreads, chunks, body, got,
                   ret>>
    /\ UNCHANGED <<wrote, tried, invoked, reads>>

\* a dispatcher that leaves the end of the response to the handler
handleBandFrame_NoEnd ==
    /\ hpc = "returned"
    /\ hpc' = "ended"
    /\ UNCHANGED <<progVars, xconn, xin, xout, nsent, askedForBody,
                   maxBodySize, lastSet, calls, nreads, chunks, body, got,
                   ret>>
    /\ UNCHANGED <<wrote, tried, invoked, reads>>

\* part_001:270-272: leash.handles.onHTTP(band, frame) has returned and
\* band.writeHTTPEnd() (band.go:207-211) writes the end frame; the result
\* of the write is dropped and handleBandFrame returns to Band.listen
handleBandFrame_End ==
    /\ hpc = "returned"
    /\ hpc' = "ended"
    /\ xout' = Append(xout, Out(KindHTTPResEnd, 0))
    /\ UNCHANGED <<progVars, xconn, xin, nsent, askedForBody, maxBodySize,
                   lastSet, calls, nreads, chunks, body, got, ret>>
    /\ UNCHANGED <<wrote, tried, invoked, reads>>

\* the queen sends a frame down the band, or resets the connection
Queen_SendBody(f) ==
    /\ hpc \notin {"none", "ended", "Close"}
    /\ xconn = "up"
    /\ nsent < MaxIn
    /\ nsent' = nsent + 1
    /\ xin' = Append(xin, [kind |-> f.kind, data |-> f.data, n |-> nsent'])
    /\ UNCHANGED <<progVars, hpc, xconn, xout, askedForBody, maxBodySize,
                   lastSet, calls, nreads, chunks, body, got, ret>>
    /\ UNCHANGED <<wrote, tried, invoked, reads>>

Queen_ResetBand ==
    /\ hpc \notin {"none", "ended", "Close"}
    /\ xconn = "up"
    /\ xconn' = "reset"
    /\ UNCHANGED <<progVars, hpc, xin, xout, nsent, askedForBody,
                   maxBodySize, lastSet, calls, nreads, chunks, body, got,
                   ret>>
    /\ UNCHANGED <<wrote, tried, invoked, reads>>

\* a read task whose read leaves the frame in the reader
listen_NextFramePeek ==
    /\ hpc = "ended"
    /\ \E r \in XReadResults :
         IF r.st # "ok"
         THEN /\ hpc' = "exited"
              /\ UNCHANGED <<xin, reads, askedForBody, maxBodySize, lastSet,
                             calls, nreads, chunks, body, got, ret, wrote,
                             tried, invoked>>
         ELSE /\ xin' = xin
              /\ reads' = Append(reads, [n |-> r.n, by |-> "callback"])
              /\ IF r.kind = KindHTTPReqHead
                 THEN /\ hpc' = "onHTTP"
                      /\ askedForBody' = FALSE
                      /\ maxBodySize' = 0
                      /\ lastSet' = 0
                      /\ calls' = 0
                      /\ nreads' = 0
                      /\ chunks' = 0
                      /\ body' = <<>>
                      /\ got' = <<>>
                      /\ ret' = NoRet
                      /\ wrote' = <<>>
                      /\ tried' = NoTry
                      /\ invoked' = 0
                 ELSE UNCHANGED <<hpc, askedForBody, maxBodySize, lastSet,
                                  calls, nreads, chunks, body, got, ret,
                                  wrote, tried, invoked>>
    /\ UNCHANGED <<progVars, xconn, xout, nsent>>

\* band.go:102-129 with part_001:257-274, the next turn of the loop of
\* Band.listen once handleBandFrame has returned: the frame it reads goes
\* to band.callback (band.go:127), which starts a request (part_004:327,
\* with a new HTTPResponse and HTTPRequest, 338-345) on a request head and
\* drops a frame of any other kind; a failed read ends the loop (114-121)
listen_NextFrame ==
    /\ hpc = "ended"
    /\ \E r \in XReadResults :
         IF r.st # "ok"
         THEN /\ hpc' = "exited"
              /\ UNCHANGED <<xin, reads, askedForBody, maxBodySize, lastSet,
                             calls, nreads, chunks, body, got, ret, wrote,
                             tried, invoked>>
         ELSE /\ xin' = Tail(xin)
              /\ reads' = Append(reads, [n |-> r.n, by |-> "callback"])
              /\ IF r.kind = KindHTTPReqHead
                 THEN /\ hpc' = "onHTTP"
                      /\ askedForBody' = FALSE
                      /\ maxBodySize' = 0
                      /\ lastSet' = 0
                      /\ calls' = 0
                      /\ nreads' = 0
                      /\ chunks' = 0
                      /\ body' = <<>>
                      /\ got' = <<>>
                      /\ ret' = NoRet
                      /\ wrote' = <<>>
                      /\ tried' = NoTry
                      /\ invoked' = 0
                 ELSE UNCHANGED <<hpc, askedForBody, maxBodySize, lastSet,
                                  calls, nreads, chunks, body, got, ret,
                                  wrote, tried, invoked>>
    /\ UNCHANGED <<progVars, xconn, xout, nsent>>

\* band 1 is listening and its read task has dispatched a request head
InitExchange ==
    /\ conn = [b \in Bands |-> IF b = 1 THEN "open" ELSE "none"]
    /\ peer = [b \in Bands |-> "up"]
    /\ inq = [b \in Bands |-> <<>>]
    /\ listening = [b \in Bands |-> b = 1]
    /\ isGarbage = [b \in Bands |-> FALSE]
    /\ stopNotify = [b \in Bands |-> NoChan]
    /\ lpc = [b \in Bands |-> IF b = 1 THEN "callback" ELSE "none"]
    /\ lres = [b \in Bands |-> IF b = 1 THEN ResOk(KindHTTPReqHead)
                               ELSE ResNone]
    /\ lchan = [b \in Bands |-> NoChan]
    /\ hops = [b \in Bands |-> 0]
    /\ hop = [b \in Bands |-> NoOp]
    /\ cpc = [t \in Tasks |-> "idle"]
    /\ cband = [t \in Tasks |-> 1]
    /\ cchan = [t \in Tasks |-> NoChan]
    /\ csaw = [t \in Tasks |-> FALSE]
    /\ SessionParked
    /\ StoreNew
    /\ hpc = "onHTTP"
    /\ xconn = "up"
    /\ xin = <<>>
    /\ xout = <<>>
    /\ nsent = 0
    /\ askedForBody = FALSE
    /\ maxBodySize = 0
    /\ lastSet = 0
    /\ calls = 0
    /\ nreads = 0
    /\ chunks = 0
    /\ body = <<>>
    /\ got = <<>>
    /\ ret = NoRet
    /\ wrote = <<>>
    /\ tried = NoTry
    /\ invoked = 0
    /\ reads = <<>>

NextExchange ==
    \/ \E o \in {"matched", "finderr", "unmatched"} : TryHandle(o)
    \/ onHTTP_AfterTryHandle
    \/ \E o \in {"staterr", "loaderr", "cached", "load"} :
         \E n \in 1..MaxChunks : Send_Start(o, n)
    \/ sendHeaders
    \/ Send_Chunk
    \/ \E readerr \in BOOLEAN : loadAndSend_Chunk(readerr)
    \/ \E n \in Sizes : SetMaxBodySize(n)
    \/ response_WriteHead(200, NilHeaders)
    \/ response_WriteBody(<<1>>)
    \/ \E op \in {"ReadBody", "ReadBodyFull"} : request_Read(op)
    \/ ReadHTTPBody_Read
    \/ ReadHTTPBodyFull_Read
    \/ OnHTTP_Return
    \/ handleBandFrame_End
    \/ \E f \in InFrames : Queen_SendBody(f)
    \/ Queen_ResetBand

SpecExchange == InitExchange /\ [][NextExchange]_vars

\* The response side of an exchange on its own: an application handler
\* that writes heads and body chunks of its choice and reads nothing.
NextResponse ==
    \/ TryHandle("unmatched")
    \/ onHTTP_AfterTryHandle
    \/ \E code \in {200, 404}, h \in HeaderArgs : response_WriteHead(code, h)
    \/ \E d \in ChunkArgs : response_WriteBody(d)
    \/ OnHTTP_Return
    \/ handleBandFrame_End
    \/ Queen_ResetBand

SpecResponse == InitExchange /\ [][NextResponse]_vars

\* The read side of a band over several requests: the read task delivers
\* frames to the callback, and a handler that only reads takes frames off
\* the same connection in between.
NextDelivery ==
    \/ TryHandle("unmatched")
    \/ onHTTP_AfterTryHandle
    \/ \E op \in {"ReadBody", "ReadBodyFull"} : request_Read(op)
    \/ ReadHTTPBody_Read
    \/ ReadHTTPBodyFull_Read
    \/ OnHTTP_Return
    \/ handleBandFrame_End
    \/ listen_NextFrame
    \/ \E f \in InFrames : Queen_SendBody(f)
    \/ Queen_ResetBand

SpecDelivery == InitExchange /\ [][NextDelivery]_vars

\* The identity of the session over reconnects: a queen that may be reached
\* at either address and issues either identity at each Dial, and asks for
\* bands in every session.  The read tasks of the bands, which touch none
\* of this, are not scheduled, so that the Close of a re-Dial finds every
\* band not yet listening.
NextIdentity ==
    \/ ReconnectStep(Addrs, Idents)
    \/ ensure_AfterAttempt(FastLimit + 1)
    \/ NewBandStep
    \/ LeashCloseStep(EnsureTask)
    \/ LeashCloseBandsStep(EnsureTask)
    \/ Close_Check(EnsureTask)
    \/ Queen_NeedBand
    \/ Queen_DropCtrl("eof")

SpecIdentity == Init /\ [][NextIdentity]_vars

(***************************************************************************)
(* The calls on the store.  Each is one step: the store has no lock and    *)
(* the calls are made by one task.                                         *)
(***************************************************************************)
\* part_005:45-70, Store.RegisterFile: both paths are given a leading
\* slash, root is put before the file path, the entry is written over
\* whatever the web path held; the call returns nil
RegisterFile(filePath, webPath, autoReload) ==
    LET w == LeadSlash(webPath)
        f == [FilePath |-> root \o LeadSlash(filePath),
              AutoReload |-> autoReload]
    IN  /\ lazyFiles' = [q \in DOMAIN lazyFiles \cup {w} |->
                            IF q = w THEN f ELSE lazyFiles[q]]
        /\ scall' = [op |-> "RegisterFile", webPath |-> webPath,
                     err |-> "nil", handled |-> FALSE, file |-> f]
        /\ UNCHANGED <<bandVars, listenVars, closeVars, sessVars,
                       identVars, exchVars>>

\* part_005:114-125, Store.UnregisterFile: the path is looked up as it was
\* passed; an error when the map has no such key (115-118), else the key is
\* deleted (119) and the call returns nil (124)
UnregisterFile(webPath) ==
    /\ IF webPath \notin DOMAIN lazyFiles
         THEN /\ scall' = [op |-> "UnregisterFile", webPath |-> webPath,
                           err |-> "not registered", handled |-> FALSE,
                           file |-> NoFile]
              /\ UNCHANGED lazyFiles
         ELSE /\ lazyFiles' = [q \in DOMAIN lazyFiles \ {webPath} |->
                                  lazyFiles[q]]
              /\ scall' = [op |-> "UnregisterFile", webPath |-> webPath,
                           err |-> "nil", handled |-> FALSE,
                           file |-> NoFile]
    /\ UNCHANGED <<bandVars, listenVars, closeVars, sessVars,
                   identVars, exchVars>>

\* part_005:148-189, Store.TryHandle for a request head of this path: a
\* file registered at exactly head.Path is sent (159-163); otherwise the
\* directories are searched, none is registered, and the call returns
\* false, nil (170-188).  What Send writes is the exchange above.
Store_TryHandle(path) ==
    /\ scall' = IF path \in DOMAIN lazyFiles
                THEN [op |-> "TryHandle", webPath |-> path, err |-> "nil",
                      handled |-> TRUE, file |-> lazyFiles[path]]
                ELSE [op |-> "TryHandle", webPath |-> path, err |-> "nil",
                      handled |-> FALSE, file |-> NoFile]
    /\ UNCHANGED lazyFiles
    /\ UNCHANGED <<bandVars, listenVars, closeVars, sessVars,
                   identVars, exchVars>>

\* The application registers, unregisters and looks up files, by paths
\* with and without a leading slash; the session is not started.
NextStore ==
    \/ \E f \in FilePaths, p \in Paths, r \in BOOLEAN : RegisterFile(f, p, r)
    \/ \E p \in Paths : UnregisterFile(p)
    \/ \E p \in Paths \cup {LeadSlash(q) : q \in Paths} : Store_TryHandle(p)

SpecStore == Init /\ [][NextStore]_vars

(***************************************************************************)
(* Properties of the data channel, checked under SpecBand.                 *)
(***************************************************************************)
\* a Close of band b, by a task other than its read task, that found the
\* band listening and has returned
ClosedListening(t, b) ==
    cpc[t] = "returned" /\ cband[t] = b /\ csaw[t]

\* C1: once a Close that found the channel listening has returned, no
\* invocation of the channel's callback begins any more: no step takes the
\* read loop into the callback.
C1_NoCallbackAfterClose ==
    [][\A b \in Bands :
         (\E t \in ExtTasks : ClosedListening(t, b))
             => ~(lpc[b] # "callback" /\ lpc'[b] = "callback")]_vars

\* C1 witness: a Close that found the channel listening has returned while
\* a frame of the queen is still unread
C1_Witness ==
    \E t \in ExtTasks : ClosedListening(t, 1) /\ inq[1] # <<>>

\* C2: when a Close that found the channel listening has returned, the read
\* task has run its exit step: listening is false and isGarbage is true.
C2_CloseReturnsAfterExit ==
    \A b \in Bands : \A t \in ExtTasks :
        ClosedListening(t, b) => (~listening[b] /\ isGarbage[b])

\* the only Close ever called on the channel is the one of task t
OnlyClose(t) == \A u \in Tasks \ {t} : cpc[u] = "idle"

\* C3: a single Close, by a task other than the read task, that found the
\* channel listening eventually returns.  It returns only by receiving the
\* read loop's signal, so while it waits the read loop has not terminated
\* (once the read loop is done nothing can ever send the signal): a Close
\* blocked in its receive always has a read loop that is still running.
C3_WaitingCloseIsSignalled ==
    \A t \in ExtTasks :
        (OnlyClose(t) /\ cpc[t] = "recv") => lpc[cband[t]] # "done"

\* C4: a Close that finds the channel not listening returns in that very
\* step, installs no completion signal and changes nothing of the channel.
C4_CloseNotListeningIsNoop ==
    [][\A t \in ExtTasks :
         (cpc[t] = "check" /\ ~listening[cband[t]] /\ cpc'[t] # "check")
             => (cpc'[t] = "returned" /\ bandVars' = bandVars)]_vars

\* C4 witness: a Close has returned having found the channel not listening
C4_Witness ==
    \E t \in ExtTasks : cpc[t] = "returned" /\ ~csaw[t]

\* C5: every failed frame read or write of a channel I/O operation puts
\* the calling task into Band.Close.
C5_FailedIOCloses ==
    \A b \in Bands : hop[b].err => cpc[ListenTask(b)] # "idle"


(***************************************************************************)
(* C6: in Leash.Dial and in spawnBand, a reply to the identity frame whose *)
(* kind is not Accept makes the call return an error naming that kind,     *)
(* with the connection closed and no read loop started; spawnBand returns  *)
(* no band.                                                                *)
(***************************************************************************)
StrangeReply(f) == f.st = "ok" /\ f.kind # KindAccept

C6_StrangeReplyFails ==
    [][/\ (epc = "dial_read" /\ epc' # epc /\ StrangeReply(lfr')) =>
             /\ epc' = "attempt_done"
             /\ err' = StrangeErr(lfr'.kind)
             /\ lconn' = "closed"
             /\ ~responding'
       /\ (epc = "spawn_read" /\ epc' # epc /\ StrangeReply(lfr')) =>
             /\ err' = StrangeErr(lfr'.kind)
             /\ conn'[sband] = "closed"
             /\ lpc'[sband] = "none"
             /\ sband' = NilBand]_vars

\* spawnBand has returned on a reply of another kind, in a session whose
\* own Dial was accepted
C6_Witness ==
    /\ epc = "newband"
    /\ StrangeReply(lfr)
    /\ err.what = "strange response"
    /\ lconn = "open"

(***************************************************************************)
(* C7: a failed spawn of a band does not tear down the session: neither    *)
(* spawnBand nor the Leash.NewBand that called it faults.                  *)
(***************************************************************************)
C7_FailedSpawnKeepsSession ==
    fault \notin {"spawnBand: conn.Close() on nil",
                  "cleanBands: band.open on nil"}

(***************************************************************************)
(* C8: while no stop has been requested, a control read that returns       *)
(* end-of-stream or any other error makes Leash.Listen return (the         *)
(* reconnect loop then sleeps and dials again).                            *)
(***************************************************************************)
C8_DropEndsListen ==
    [][(epc = "listen" /\ ~shouldStop /\ lfr'.st \in {"eof", "err"}) =>
           epc' = "attempt_done"]_vars

(***************************************************************************)
(* C9: with every attempt failing in under ten seconds, the successive     *)
(* sleeps of the reconnect loop last 3, 4, 6, 9, 13, 19, 28, 42, 63, 63,   *)
(* ... seconds.  nsleeps counts the sleeps of such a run.                  *)
(***************************************************************************)
ClaimedDelays == <<3, 4, 6, 9, 13, 19, 28, 42, 63>>

C9_ClaimedDelays ==
    (epc = "sleep" /\ allFast /\ nsleeps >= 1) =>
        retryTime = IF nsleeps <= Len(ClaimedDelays)
                    THEN ClaimedDelays[nsleeps] ELSE 63

\* C9 as amended: the sleeps last 4, 6, 9, 13, 19, 28, 42, 63, 63, ...
\* seconds; 3 is the value the loop starts from and grows before it first
\* sleeps
ObservedDelays == <<4, 6, 9, 13, 19, 28, 42, 63>>

C9_ObservedDelays ==
    (epc = "sleep" /\ allFast /\ nsleeps >= 1) =>
        retryTime = IF nsleeps <= Len(ObservedDelays)
                    THEN ObservedDelays[nsleeps] ELSE 63

\* the loop sleeps 63 seconds for the second time
C9_Witness ==
    /\ epc = "sleep"
    /\ allFast
    /\ nsleeps = Len(ObservedDelays) + 1
    /\ retryTime = 63

(***************************************************************************)
(* C10: an attempt that lasted more than ten seconds makes the next sleep  *)
(* last exactly 2 seconds, whatever the backoff was and whichever of Dial, *)
(* Mount and Listen ended the attempt.                                     *)
(***************************************************************************)
C10_SlowAttemptResets ==
    [][(epc = "attempt_done" /\ epc' = "sleep" /\ elapsed' > FastLimit) =>
           retryTime' = ResetRetry]_vars

\* the loop sleeps 2 seconds after a long attempt that Listen ended on the
\* queen's end-of-stream
C10_Witness ==
    /\ epc = "sleep"
    /\ elapsed > FastLimit
    /\ retryTime = ResetRetry
    /\ lconn = "open"
    /\ lpeer = "eof"


(***************************************************************************)
(* C11: when a stop was requested while a reconnect attempt was in         *)
(* progress, the loop exits when the attempt returns: it does not sleep    *)
(* and does not dial again.                                                *)
(***************************************************************************)
C11_StopMidAttemptExits ==
    [][(epc = "attempt_done" /\ shouldStop /\ epc' # epc) =>
           epc' = "exited"]_vars

\* the loop has exited on the check that follows the attempt
C11_Witness ==
    /\ epc = "exited"
    /\ shouldStop
    /\ elapsed > 0

(***************************************************************************)
(* C12: once Cell.Stop has returned the reconnect loop starts no Dial, in  *)
(* every interleaving of Stop with the loop's reads of shouldStop.         *)
(***************************************************************************)
C12_NoDialAfterStop ==
    [][mpc = "stopped" => ~(epc = "dial" /\ epc' # epc)]_vars

(***************************************************************************)
(* C13: after Stop the reconnect loop terminates: the Close that Stop      *)
(* performs makes the Listen that is blocked in its read return.           *)
(***************************************************************************)
C13_StopEndsListen ==
    [][(shouldStop /\ epc = "listen" /\ lconn = "closed" /\ epc' # epc) =>
           epc' = "attempt_done"]_vars


(***************************************************************************)
(* The frames of an exchange.                                              *)
(***************************************************************************)
Count(seq, k) == Cardinality({i \in 1..Len(seq) : seq[i].kind = k})

\* exactly one end frame once the dispatcher is done, the last frame; none
\* before
OneEndLast ==
    /\ Count(xout, KindHTTPResEnd) = IF hpc = "ended" THEN 1 ELSE 0
    /\ hpc = "ended" => xout[Len(xout)].kind = KindHTTPResEnd

HeadOnceBeforeBody ==
    /\ Count(xout, KindHTTPResHead) <= 1
    /\ \A i, j \in 1..Len(xout) :
         (xout[i].kind = KindHTTPResBody /\ xout[j].kind = KindHTTPResHead)
             => j < i

RECURSIVE Flatten(_)
Flatten(frames) ==
    IF frames = <<>> THEN <<>>
    ELSE frames[1].data \o Flatten(Tail(frames))

(***************************************************************************)
(* C14: for the request head dispatched, exactly one response-end frame is *)
(* written, after the handler has returned and so after every frame the    *)
(* handler wrote, whatever the handler wrote and whether the store or the  *)
(* application served the request or failed to.                            *)
(***************************************************************************)
C14_OneEndAfterHandler == OneEndLast

\* the application handler has returned without writing a frame
C14_Witness ==
    /\ hpc = "ended"
    /\ calls > 0
    /\ xout = <<Out(KindHTTPResEnd, 0)>>

(***************************************************************************)
(* C15: in the outbound frames of every exchange the response head is sent *)
(* at most once and before any body chunk, and the exchange ends with      *)
(* exactly one end marker.                                                 *)
(***************************************************************************)
C15_EveryExchangeOrdered == HeadOnceBeforeBody /\ OneEndLast

\* C15 as amended: the order of head and body holds of the exchanges the
\* static store serves (the application handler has made no call, so every
\* frame is the store's or the dispatcher's); the end marker holds of all
C15_StoreOrderedAllEnded ==
    /\ calls = 0 => HeadOnceBeforeBody
    /\ OneEndLast

\* the store has sent a file of two chunks
C15_Witness ==
    /\ hpc = "ended"
    /\ calls = 0
    /\ Len(xout) = 4

(***************************************************************************)
(* C16: across the ReadBody and ReadBodyFull calls of one exchange the     *)
(* body-want frame is sent exactly once, by the first body read and before *)
(* any body frame is read.                                                 *)
(***************************************************************************)
C16_WantSentOnce ==
    [][/\ Count(xout', KindHTTPResWant) = IF nreads' > 0 THEN 1 ELSE 0
       /\ Len(xin') < Len(xin) => Count(xout, KindHTTPResWant) = 1]_vars

\* a second body read has returned
C16_Witness ==
    /\ nreads = 2
    /\ hpc = "OnHTTP"
    /\ ret.op = "ReadBodyFull"
    /\ Count(xout, KindHTTPResWant) = 1

(***************************************************************************)
(* C17: the size in the body-want frame is the value of the last           *)
(* SetMaxBodySize before the first body read, 8192 when that is 0 or was   *)
(* never set; a SetMaxBodySize after the first body read sends no frame    *)
(* and leaves the size requested as it was.                                *)
(***************************************************************************)
C17_WantSize ==
    [][/\ \A i \in 1..Len(xout') :
            xout'[i].kind = KindHTTPResWant =>
                xout'[i].arg = IF lastSet' = 0 THEN DefaultMaxBodySize
                               ELSE lastSet'
       /\ (nreads > 0 /\ maxBodySize' # maxBodySize) => xout' = xout]_vars

\* 2048 was requested and SetMaxBodySize(0) came after the first read
C17_Witness ==
    /\ nreads > 0
    /\ maxBodySize = 0
    /\ \E i \in 1..Len(xout) : xout[i] = Out(KindHTTPResWant, 2048)

(***************************************************************************)
(* C18: ReadHTTPBody returns more = true, the payload and no error exactly *)
(* when the frame read is a request-body frame, more = false and no error  *)
(* when it is a request-body-end frame, and more = false with an error     *)
(* when the read fails or the frame is of any other kind.  Every step that *)
(* ends the read is a return of ReadBody with that result.                 *)
(***************************************************************************)
C18_ReadHTTPBodyResult ==
    [][(hpc = "ReadHTTPBody" /\ hpc' # hpc) =>
          \A r \in XReadResults :
              /\ hpc' = "OnHTTP"
              /\ ret'.op = "ReadBody"
              /\ (ret'.more /\ ret'.err = "nil")
                     <=> (r.st = "ok" /\ r.kind = KindHTTPReqBody)
              /\ ret'.more => ret'.data = r.data
              /\ (r.st = "ok" /\ r.kind = KindHTTPReqEnd)
                     => (~ret'.more /\ ret'.err = "nil")
              /\ (r.st # "ok" \/ r.kind \notin {KindHTTPReqBody,
                                                KindHTTPReqEnd})
                     => (~ret'.more /\ ret'.err # "nil")]_vars

(***************************************************************************)
(* C19: ReadBodyFull over request-body frames followed by an end frame     *)
(* returns, with no error, the payloads of the frames in arrival order,    *)
(* and reads no frame past the end frame.                                  *)
(***************************************************************************)
C19_ReadBodyFullConcatenates ==
    (ret.op = "ReadBodyFull" /\ ret.err = "nil") =>
        /\ got # <<>>
        /\ got[Len(got)].kind = KindHTTPReqEnd
        /\ \A i \in 1..(Len(got) - 1) : got[i].kind = KindHTTPReqBody
        /\ ret.data = Flatten(got)

\* two chunks and the end
C19_Witness ==
    /\ ret.op = "ReadBodyFull"
    /\ ret.err = "nil"
    /\ Len(got) = 3
    /\ ret.data = <<1, 2>>

(***************************************************************************)
(* C20: when ReadBodyFull stops on an error after k >= 0 body chunks, it   *)
(* returns the error with the partial data accumulated so far: the data    *)
(* returned begins with the concatenation of those k chunks.               *)
(***************************************************************************)
IsPrefix(p, q) == Len(p) <= Len(q) /\ SubSeq(q, 1, Len(p)) = p

C20_ErrorKeepsPartialBody ==
    (ret.op = "ReadBodyFull" /\ ret.err # "nil") =>
        IsPrefix(Flatten(SubSeq(got, 1, Len(got) - 1)), ret.data)

(***************************************************************************)
(* Properties of the registry, checked under SpecRegistry.                 *)
(***************************************************************************)
\* C21: after N bands were spawned and all of them closed (each Close
\* having returned, here with the connection closed by it), the next spawn
\* leaves the registry holding exactly the band it spawned: the sweep of
\* that NewBand removes every band closed before (and keeps the new band,
\* unless its own read task has exited already).
C21_SweepLeavesNewBand ==
    [][(/\ epc = "clean" /\ epc' = "listen"
        /\ \A b \in bands \ {sband} : conn[b] = "closed")
           => /\ bands' \subseteq {sband}
              /\ ~isGarbage[sband] => bands' = {sband}]_vars

(***************************************************************************)
(* C22: when Leash.Close returns, every band of the registry has been      *)
(* closed: none has an open connection or a read task still to run, a band *)
(* spawned just before included.  The registry cannot change while Close   *)
(* holds the read lock, so the bands at the return are the bands Close     *)
(* walked over.                                                            *)
(***************************************************************************)
C22_LeashCloseClosesAll ==
    [][\A t \in ExtTasks :
         (lcpc[t] = "range" /\ lcpc'[t] = "none") =>
             \A b \in bands \ {NilBand} :
                 conn'[b] = "closed" /\ lpc'[b] = "done"]_vars

(***************************************************************************)
(* C23: when Leash.Listen returns, it returns nil if its loop ended on a   *)
(* clean end-of-stream of the control connection and the error of the read *)
(* if it ended on any other failure.                                       *)
(***************************************************************************)
C23_ListenResult ==
    [][(epc = "listen" /\ epc' = "attempt_done") =>
           err' = IF lfr'.st = "eof" THEN NoErr ELSE Err("read")]_vars

(***************************************************************************)
(* Properties of the response, checked under SpecResponse, where every     *)
(* head and body frame is the application handler's.                       *)
(***************************************************************************)
IsHead(f) == f.kind = KindHTTPResHead
IsBody(f) == f.kind = KindHTTPResBody
IsWriteHead(w) == w.op = "WriteHead"
IsWriteBody(w) == w.op = "WriteBody"

\* C24: each WriteHead call sends exactly one response-head frame; the
\* frame of WriteHead(code, nil) carries an empty header map, never a nil
\* one, and the frame of a call with a map carries that map unchanged.
C24_HeadCarriesMap ==
    /\ Len(SelectSeq(xout, IsHead)) = Len(SelectSeq(wrote, IsWriteHead))
    /\ \A i \in 1..Len(SelectSeq(wrote, IsWriteHead)) :
          /\ SelectSeq(xout, IsHead)[i].arg
                = SelectSeq(wrote, IsWriteHead)[i].code
          /\ ~SelectSeq(xout, IsHead)[i].headers.nil
          /\ SelectSeq(xout, IsHead)[i].headers.entries
                = SelectSeq(wrote, IsWriteHead)[i].headers.entries

\* WriteHead(404, nil) has sent a head with an empty map
C24_Witness ==
    /\ wrote # <<>>
    /\ wrote[1].op = "WriteHead"
    /\ wrote[1].headers = NilHeaders
    /\ xout[1] = OutHead(404, Headers({}))

\* C25: each WriteBody call sends exactly one response-body frame carrying
\* the chunk unchanged, and the body frames are on the channel in the
\* order of the calls.
C25_BodyFramesInCallOrder ==
    /\ Len(SelectSeq(xout, IsBody)) = Len(SelectSeq(wrote, IsWriteBody))
    /\ \A i \in 1..Len(SelectSeq(wrote, IsWriteBody)) :
          SelectSeq(xout, IsBody)[i].data
              = SelectSeq(wrote, IsWriteBody)[i].data

\* the same chunk written twice, after another: three body frames
C25_Witness ==
    /\ Len(wrote) = 3
    /\ \A i \in 1..3 : wrote[i].op = "WriteBody"
    /\ SelectSeq(xout, IsBody) = <<OutBody(<<2>>), OutBody(<<1>>),
                                   OutBody(<<1>>)>>

(***************************************************************************)
(* C26: for a request head the store is consulted before the application   *)
(* handler: OnHTTP is invoked at most once, and only after TryHandle has   *)
(* returned handled = false and no error; no call of the handler belongs   *)
(* to an exchange in which OnHTTP was not invoked.                         *)
(***************************************************************************)
C26_StoreBeforeHandler ==
    /\ invoked <= 1
    /\ invoked = 1 => tried = Tried(FALSE, FALSE)
    /\ calls > 0 => invoked = 1

\* the store has failed to send a file it claimed, and the exchange has
\* ended without the handler
C26_Witness ==
    /\ hpc = "ended"
    /\ tried = Tried(TRUE, TRUE)
    /\ invoked = 0
    /\ xout # <<>>

(***************************************************************************)
(* C27: the frames that arrive on a data channel are numbered in arrival   *)
(* order.  The frames read off the channel, by the read task for the       *)
(* callback or by a handler's body read, are read in strictly increasing   *)
(* number: the callback gets frames in arrival order, no frame twice, and  *)
(* no frame that a body read has consumed.                                 *)
(***************************************************************************)
C27_DeliveredInArrivalOrder ==
    /\ \A i \in 1..Len(reads) : reads[i].n \in 1..nsent
    /\ \A i, j \in 1..Len(reads) : i < j => reads[i].n < reads[j].n

\* a body read took a frame, and the callback got frames after it, the
\* last one a request head that started the next request
C27_Witness ==
    /\ Len(reads) = MaxIn
    /\ reads[1].by = "handler"
    /\ reads[2].by = "callback"
    /\ reads[MaxIn].by = "callback"
    /\ hpc = "OnHTTP"

(***************************************************************************)
(* C28: an attempt of the reconnect loop calls Dial, Mount and Listen in   *)
(* this order and returns at the first failure.  Dial ends either in the   *)
(* call of Mount, when it returned nil, or in the return of the attempt;   *)
(* Mount is called from nowhere else and, once called, is left for Listen  *)
(* when it returned nil and for the return of the attempt otherwise, so    *)
(* it runs once per successful Dial; Listen is entered from Mount only.    *)
(***************************************************************************)
DialPcs == {"dial", "dial_close", "dial_tls", "dial_write", "dial_read"}
ListenPcs == {"listen", "handle", "spawn_dial", "spawn_write", "spawn_read",
              "newband", "clean"}

C28_DialMountListen ==
    [][/\ (epc \in DialPcs /\ epc' \notin DialPcs) =>
             IF err' = NoErr THEN epc' = "mount" ELSE epc' = "attempt_done"
       /\ (epc # "mount" /\ epc' = "mount") =>
             epc = "dial_read" /\ err' = NoErr
       /\ (epc = "mount" /\ epc' # "mount") =>
             IF err' = NoErr THEN epc' = "listen" ELSE epc' = "attempt_done"
       /\ (epc \notin ListenPcs /\ epc' \in ListenPcs) =>
             epc = "mount" /\ epc' = "listen" /\ err' = NoErr]_vars

\* Listen is reading control frames in an attempt that followed a failed
\* one
C28_Witness ==
    /\ epc = "handle"
    /\ lfr.st = "ok"
    /\ nsleeps > 0
    /\ err = NoErr

(***************************************************************************)
(* C29: a control read that did not succeed, with end-of-stream or with    *)
(* any other error, makes Leash.Listen leave its loop, and only a frame    *)
(* that was read is dispatched to handleFrame.                             *)
(***************************************************************************)
C29_FailedReadNotDispatched ==
    [][(epc = "listen" /\ epc' # "listen") =>
           IF lfr'.st = "ok" THEN epc' = "handle"
           ELSE epc' = "attempt_done"]_vars

(***************************************************************************)
(* C30: a band is garbage exactly when its read task has returned,         *)
(* whatever ended it (a stop request, end-of-stream, a read error); a      *)
(* garbage band is never listening; and a garbage band stays garbage.      *)
(***************************************************************************)
C30_GarbageIffExited ==
    /\ [](\A b \in Bands : /\ isGarbage[b] <=> lpc[b] = "done"
                           /\ isGarbage[b] => ~listening[b])
    /\ [][\A b \in Bands : isGarbage[b] => isGarbage'[b]]_vars

\* the read task of band 1 was ended by a Close and the band is garbage,
\* with the queen's end still up
C30_Witness ==
    /\ isGarbage[1]
    /\ lpc[1] = "done"
    /\ conn[1] = "closed"
    /\ peer[1] = "up"
    /\ \E t \in ExtTasks : cpc[t] = "returned" /\ csaw[t]

(***************************************************************************)
(* C31: a registered band is listening before its read task runs, so a     *)
(* Close of a registered band never returns as a no-op while the band's    *)
(* read task has yet to start.                                             *)
(***************************************************************************)
C31_NoSkippedCloseBeforeStart ==
    [][\A t \in ExtTasks :
         (/\ cpc[t] = "check"
          /\ cpc'[t] = "returned"
          /\ cband[t] \in bands) => lpc[cband[t]] # "spawned"]_vars

(***************************************************************************)
(* C32: the read task of a band never waits on the band's own completion   *)
(* signal.  The signal is sent by the read task only, between two reads    *)
(* (band.go:105-111), so a read task waiting for it in a Close called by   *)
(* its handler waits for ever.                                             *)
(***************************************************************************)
C32_ReadTaskNeverAwaitsItself ==
    \A b \in Bands : cpc[ListenTask(b)] # "recv"

(***************************************************************************)
(* C33: no two tasks of the program are inside Band.Close of the same band *)
(* at the same time.                                                       *)
(***************************************************************************)
InClose(t) == cpc[t] \in {"check", "install", "connclose", "evalrecv", "recv"}

C33_NoOverlappingClose ==
    \A t, u \in Tasks :
        (t # u /\ InClose(t) /\ InClose(u)) => cband[t] # cband[u]

(***************************************************************************)
(* C34: Leash.Close terminates and releases the read lock of the registry. *)
(* While it holds the lock and waits in a band's Close for the completion  *)
(* signal, the band's read task, the only sender of that signal, has not   *)
(* returned yet; a wait on a read task that has returned never ends.       *)
(***************************************************************************)
C34_LeashCloseNotStuck ==
    \A t \in ExtTasks :
        (t \in rlock /\ lcpc[t] = "inclose" /\ cpc[t] = "recv")
            => lpc[cband[t]] # "done"

(***************************************************************************)
(* C35: Leash.Close, called by Cell.Stop or by Leash.Dial, does not fault, *)
(* whatever the state of the session.                                      *)
(***************************************************************************)
C35_CloseNeverFaults ==
    fault \notin {"Leash.Close: leash.conn.Close() on nil",
                  "Leash.Close: band.Close() on nil"}

(***************************************************************************)
(* C36: every entry of the registry is a band that spawnBand built after   *)
(* a successful handshake; in particular the nil band is never an entry.   *)
(***************************************************************************)
C36_RegistryOnlySpawned ==
    \A b \in bands : b # NilBand /\ lpc[b] # "none"

(***************************************************************************)
(* C37: handleFrame answers a NeedBand frame with one call of NewBand, a   *)
(* spawn attempt and then the sweep, both of which run to their end; for   *)
(* a frame of any other kind it goes back to the control read and leaves   *)
(* the registry, the bands and the control connection as they are.         *)
(***************************************************************************)
C37_NeedBandSpawnsAndSweeps ==
    [][/\ (epc = "handle" /\ epc' # "handle") =>
             IF lfr.kind = KindNeedBand
             THEN epc' = "spawn_dial"
             ELSE /\ epc' = "listen"
                  /\ bands' = bands
                  /\ bandVars' = bandVars
                  /\ lconn' = lconn
       /\ (epc # "clean" /\ epc' = "clean") => epc = "newband"
       /\ (epc # "newband" /\ epc' = "newband") =>
             epc \in {"spawn_write", "spawn_read"}
       /\ epc \in {"spawn_dial", "clean"} =>
             fault' \notin {"spawnBand: conn.Close() on nil",
                            "cleanBands: band.open on nil"}]_vars

(***************************************************************************)
(* C38: the identity frame a band sends declares a band and carries the    *)
(* uuid and key of the accept frame of the Dial that established the       *)
(* running session, and the band's connection was dialled to the remote    *)
(* address of the session's control connection.                            *)
(***************************************************************************)
C38_BandPresentsSessionIdentity ==
    [][\A b \in Bands :
         (biam'[b] # biam[b] /\ biam'[b].connKind # "none") =>
             /\ biam'[b].connKind = "band"
             /\ qident # NoIdent
             /\ biam'[b].uuid = qident.uuid
             /\ biam'[b].key = qident.key
             /\ laddr # NoAddr
             /\ biam'[b].addr = laddr]_vars

\* two bands of two sessions, each with the identity and the address of
\* its own session
C38_Witness ==
    \E b, c \in Bands :
        /\ biam[b].connKind = "band"
        /\ biam[c].connKind = "band"
        /\ biam[b].uuid # biam[c].uuid
        /\ biam[b].addr # biam[c].addr

(***************************************************************************)
(* C39: whatever the attempts before it were, fast or longer than ten      *)
(* seconds, every sleep of the reconnect loop lasts 2, 3, 4, 6, 9, 13, 19, *)
(* 28, 42 or 63 seconds.                                                   *)
(***************************************************************************)
SleepDelays == {2, 3, 4, 6, 9, 13, 19, 28, 42, 63}

C39_SleepDelayInRange ==
    epc = "sleep" => retryTime \in SleepDelays

\* the loop sleeps 3 seconds: a fast attempt after one that reset the
\* backoff to 2, in a run that had reached the cap before
C39_Witness ==
    /\ epc = "sleep"
    /\ retryTime = 3
    /\ ~allFast
    /\ elapsed < FastLimit

(***************************************************************************)
(* C40: for every web path p, an UnregisterFile(p) that follows a          *)
(* RegisterFile(f, p, r) returns nil and leaves no file registered for p,  *)
(* so that no TryHandle is served by that file; and an UnregisterFile of a *)
(* path that is not registered returns an error and leaves the store as    *)
(* it was.                                                                 *)
(***************************************************************************)
C40_UnregisterRoundTrips ==
    [][/\ (/\ scall.op = "RegisterFile"
           /\ scall'.op = "UnregisterFile"
           /\ scall'.webPath = scall.webPath)
          => /\ scall'.err = "nil"
             /\ scall.webPath \notin DOMAIN lazyFiles'
             /\ LeadSlash(scall.webPath) \notin DOMAIN lazyFiles'
       /\ (/\ scall'.op = "UnregisterFile"
           /\ scall'.webPath \notin DOMAIN lazyFiles)
          => /\ scall'.err = "not registered"
             /\ lazyFiles' = lazyFiles]_vars

====
